---- MODULE Spec2Model ----
(***************************************************************************)
(* The agentic tool gateway of hwpx-mcp: registry, grouping, retrieval,    *)
(* hierarchical router and the AgenticGateway operations, run as           *)
(* cooperative coroutines that suspend only at backend.list_tools and      *)
(* backend.call_tool.                                                      *)
(*                                                                         *)
(* Text (names, descriptions, queries, tool ids) is a sequence of          *)
(* one-character strings, so that strip, lower, substring tests,           *)
(* tokenisation and string ordering are computed as the code computes      *)
(* them.  Group names, reasons and messages are atomic strings.            *)
(* Optional values are <<>> (None) or <<v>>.  JSON objects are sets of     *)
(* <<key, value>> pairs.  Floating-point scores are fixed-point integers   *)
(* with SCALE units per 1.0.                                               *)
(***************************************************************************)
EXTENDS Integers, Sequences, FiniteSets, TLC

\* ------------------------------------------------------------------ text

UpperChars == <<"A","B","C","D","E","F","G","H","I","J","K","L","M","N","O","P","Q","R","S","T","U","V","W","X","Y","Z">>

LowerChars == <<"a","b","c","d","e","f","g","h","i","j","k","l","m","n","o","p","q","r","s","t","u","v","w","x","y","z">>

DigitChars == <<"0","1","2","3","4","5","6","7","8","9">>

\* The characters of the model in code-point order (str comparison).
AsciiOrder == <<" ", "-">> \o DigitChars \o <<":">> \o UpperChars \o <<"_">> \o LowerChars

Ord(c) == CHOOSE i \in 1..Len(AsciiOrder) : AsciiOrder[i] = c

Range(s) == {s[i] : i \in 1..Len(s)}

LowerChar(c) ==
    IF c \in Range(UpperChars)
    THEN LowerChars[CHOOSE i \in 1..Len(UpperChars) : UpperChars[i] = c]
    ELSE c

\* str.lower()
Lower(s) == [i \in 1..Len(s) |-> LowerChar(s[i])]

RECURSIVE LStrip(_)
LStrip(s) == IF s # <<>> /\ Head(s) = " " THEN LStrip(Tail(s)) ELSE s

RECURSIVE RStrip(_)
RStrip(s) == IF s # <<>> /\ s[Len(s)] = " " THEN RStrip(SubSeq(s, 1, Len(s) - 1)) ELSE s

\* str.strip()
Strip(s) == RStrip(LStrip(s))

\* needle in hay
Contains(hay, needle) ==
    \E i \in 1..(Len(hay) - Len(needle) + 1) : SubSeq(hay, i, i + Len(needle) - 1) = needle

\* a < b on str (code-point lexicographic)
RECURSIVE StrLess(_, _)
StrLess(a, b) ==
    IF b = <<>> THEN FALSE
    ELSE IF a = <<>> THEN TRUE
    ELSE IF Head(a) # Head(b) THEN Ord(Head(a)) < Ord(Head(b))
    ELSE StrLess(Tail(a), Tail(b))

\* " ".join(parts)
RECURSIVE Join(_)
Join(parts) ==
    IF parts = <<>> THEN <<>>
    ELSE IF Len(parts) = 1 THEN parts[1]
    ELSE parts[1] \o <<" ">> \o Join(Tail(parts))

TokenChars == Range(LowerChars) \cup Range(DigitChars) \cup {"_"}

\* TOKEN_PATTERN.findall(s): the maximal runs of [a-z0-9_] in s, with cur the run in progress.
RECURSIVE FindTokens(_, _)
FindTokens(s, cur) ==
    IF s = <<>> THEN (IF cur = <<>> THEN <<>> ELSE <<cur>>)
    ELSE IF Head(s) \in TokenChars THEN FindTokens(Tail(s), Append(cur, Head(s)))
    ELSE (IF cur = <<>> THEN <<>> ELSE <<cur>>) \o FindTokens(Tail(s), <<>>)

_tokenize(text) == FindTokens(Lower(text), <<>>)

\* ------------------------------------------------------------- models.py

GROUP_NAMES ==
    << "document_lifecycle", "text_insertion", "table_chart", "field_meta", "find_replace",
       "xml_direct", "export_convert", "util_debug", "other" >>

None == <<>>

Some(v) == <<v>>

search_blob(record) ==
    record.name \o <<" ">> \o record.description \o <<" ">> \o Join(record.tags)

\* ----------------------------------------------------------- grouping.py

GROUP_KEYWORDS ==
    << [group |-> "document_lifecycle", keywords |-> <<
          <<"c","o","n","n","e","c","t">>,
          <<"d","i","s","c","o","n","n","e","c","t">>,
          <<"c","r","e","a","t","e">>,
          <<"o","p","e","n">>,
          <<"s","a","v","e">>,
          <<"c","l","o","s","e">>,
          <<"d","o","c","u","m","e","n","t">>
       >>],
       [group |-> "text_insertion", keywords |-> <<
          <<"i","n","s","e","r","t","_","t","e","x","t">>,
          <<"f","o","n","t">>,
          <<"c","h","a","r","s","h","a","p","e">>,
          <<"p","a","r","a","s","h","a","p","e">>,
          <<"p","a","r","a","g","r","a","p","h">>,
          <<"h","e","a","d","i","n","g">>,
          <<"b","o","l","d">>,
          <<"i","t","a","l","i","c">>,
          <<"u","n","d","e","r","l","i","n","e">>
       >>],
       [group |-> "table_chart", keywords |-> <<
          <<"t","a","b","l","e">>,
          <<"c","e","l","l">>,
          <<"c","h","a","r","t">>,
          <<"p","i","c","t","u","r","e">>,
          <<"i","m","a","g","e">>,
          <<"e","q","u","a","t","i","o","n">>
       >>],
       [group |-> "field_meta", keywords |-> <<
          <<"f","i","e","l","d">>,
          <<"b","o","o","k","m","a","r","k">>,
          <<"m","e","t","a","t","a","g">>,
          <<"m","e","t","a","d","a","t","a">>,
          <<"t","e","m","p","l","a","t","e">>
       >>],
       [group |-> "find_replace", keywords |-> <<
          <<"f","i","n","d">>,
          <<"r","e","p","l","a","c","e">>,
          <<"s","e","a","r","c","h">>
       >>],
       [group |-> "xml_direct", keywords |-> <<
          <<"x","m","l">>,
          <<"x","p","a","t","h">>,
          <<"v","a","l","i","d","a","t","e">>,
          <<"p","a","r","s","e","_","s","e","c","t","i","o","n">>,
          <<"s","m","a","r","t","_","p","a","t","c","h">>
       >>],
       [group |-> "export_convert", keywords |-> <<
          <<"e","x","p","o","r","t">>,
          <<"c","o","n","v","e","r","t">>,
          <<"p","d","f">>,
          <<"h","t","m","l">>
       >>],
       [group |-> "util_debug", keywords |-> <<
          <<"p","i","n","g">>,
          <<"c","a","p","a","b","i","l","i","t","i","e","s">>,
          <<"p","l","a","t","f","o","r","m","_","i","n","f","o">>,
          <<"g","e","t","_","d","o","c","u","m","e","n","t","_","i","n","f","o">>,
          <<"p","a","g","e","_","c","o","u","n","t">>
       >>],
       [group |-> "other", keywords |-> <<
       >>] >>

\* The last matching group wins: a later match overwrites an earlier one.
RECURSIVE LastMatchingGroup(_, _)
LastMatchingGroup(lowered, entries) ==
    IF entries = <<>> THEN "other"
    ELSE IF LastMatchingGroup(lowered, Tail(entries)) # "other"
         THEN LastMatchingGroup(lowered, Tail(entries))
    ELSE IF Head(entries).group # "other"
            /\ \E i \in 1..Len(Head(entries).keywords) : Contains(lowered, Head(entries).keywords[i])
         THEN Head(entries).group
    ELSE "other"

RECURSIVE FirstMatchingGroup(_, _)
FirstMatchingGroup(lowered, entries) ==
    IF entries = <<>> THEN "other"
    ELSE IF Head(entries).group # "other"
            /\ \E i \in 1..Len(Head(entries).keywords) : Contains(lowered, Head(entries).keywords[i])
         THEN Head(entries).group
    ELSE FirstMatchingGroup(lowered, Tail(entries))

classify_group(tool_name, description) ==
    FirstMatchingGroup(Lower(tool_name \o <<" ">> \o description), GROUP_KEYWORDS)

\* ----------------------------------------------------------- registry.py

TagWindowsOnly == <<"w","i","n","d","o","w","s","-","o","n","l","y">>

TagXml == <<"x","m","l">>

TagExport == <<"e","x","p","o","r","t">>

TagGeneric == <<"g","e","n","e","r","i","c">>

_detect_tags(tool_name, description) ==
    LET lowered == Lower(tool_name \o <<" ">> \o description)
        tags == (IF Contains(lowered, <<"w","i","n","d","o","w","s">>) THEN <<TagWindowsOnly>> ELSE <<>>)
                \o (IF \E tok \in {<<"x","m","l">>, <<"x","p","a","t","h">>, <<"h","w","p","x">>} : Contains(lowered, tok)
                    THEN <<TagXml>> ELSE <<>>)
                \o (IF \E tok \in {<<"p","d","f">>, <<"h","t","m","l">>, <<"c","o","n","v","e","r","t">>, <<"e","x","p","o","r","t">>} : Contains(lowered, tok)
                    THEN <<TagExport>> ELSE <<>>)
    IN  IF tags = <<>> THEN <<TagGeneric>> ELSE tags

\* A JSON object is a set of <<key, value>> pairs.
EmptyObject == {}

TypeObjectSchema == {<<"type", "object">>}

\* _to_json_object of an optional raw value: a dict is kept, anything else becomes {}.
_to_json_object(value) == IF value = None THEN EmptyObject ELSE value[1]

NameX1 == <<"x","1">>

NamePing == <<"p","i","n","g">>

\* sha256(json.dumps(payload, sort_keys=True, ensure_ascii=False))[:16], tabulated with the
\* real digests for the payloads the model's descriptors produce.
_stable_hash(name, inputSchema, outputSchema) ==
    CASE name = NameX1 /\ inputSchema = EmptyObject /\ outputSchema = None ->
             <<"3","c","f","c","4","a","2","9","f","f","4","f","d","0","c","2">>
      [] name = NamePing /\ inputSchema = TypeObjectSchema /\ outputSchema = None ->
             <<"b","4","7","c","f","5","4","e","6","0","f","0","2","b","7","4">>
      [] name = NamePing /\ inputSchema = EmptyObject /\ outputSchema = None ->
             <<"8","e","c","9","5","a","9","c","1","0","5","7","c","0","5","1">>
      [] name = <<>> /\ inputSchema = EmptyObject /\ outputSchema = None ->
             <<"5","2","e","d","1","4","0","d","8","9","1","b","4","1","9","8">>
      [] name = <<"h","w","p","_","p","i","n","g">> /\ inputSchema = EmptyObject /\ outputSchema = None ->
             <<"1","0","0","5","f","e","c","1","7","6","0","1","b","8","9","4">>
      [] name = <<"h","w","p","_","p","l","a","t","f","o","r","m","_","i","n","f","o">> /\ inputSchema = EmptyObject /\ outputSchema = None ->
             <<"2","c","9","2","5","4","7","2","a","9","8","f","c","3","0","1">>
      [] name = <<"h","w","p","_","s","a","v","e">> /\ inputSchema = EmptyObject /\ outputSchema = None ->
             <<"6","1","1","5","7","9","d","7","5","b","3","e","d","e","5","1">>
      [] name = <<"h","w","p","_","f","i","n","d">> /\ inputSchema = EmptyObject /\ outputSchema = None ->
             <<"4","4","f","0","0","7","1","4","7","5","8","7","b","e","7","1">>

_convert_tool(tool_dump) ==
    LET name == Strip(tool_dump.name)
        description == Strip(tool_dump.description)
        input_schema == _to_json_object(tool_dump.inputSchema)
        output_schema == IF tool_dump.outputSchema = None THEN None
                         ELSE Some(_to_json_object(tool_dump.outputSchema))
        schema_hash == _stable_hash(name, input_schema, output_schema)
    IN  [ tool_id |-> name \o <<":">> \o schema_hash,
          name |-> name,
          description |-> description,
          input_schema |-> input_schema,
          output_schema |-> output_schema,
          group |-> classify_group(name, description),
          tags |-> _detect_tags(name, description),
          schema_hash |-> schema_hash ]

\* Stable insertion of record r into a list sorted by name (after every equal name).
RECURSIVE InsertByName(_, _)
InsertByName(sorted, r) ==
    IF sorted = <<>> THEN <<r>>
    ELSE IF StrLess(r.name, Head(sorted).name) THEN <<r>> \o sorted
    ELSE <<Head(sorted)>> \o InsertByName(Tail(sorted), r)

\* The records are kept in the order the backend listed them.
Unsorted(records) == records

\* sorted(records, key=lambda record: record.name)
RECURSIVE SortedByName(_)
SortedByName(records) ==
    IF records = <<>> THEN <<>>
    ELSE InsertByName(SortedByName(SubSeq(records, 1, Len(records) - 1)), records[Len(records)])

\* build_registry once list_tools has returned tools
build_registry(tools) ==
    SortedByName([i \in 1..Len(tools) |-> _convert_tool(tools[i])])

\* ---------------------------------------------------------- retrieval.py

\* One unit of score: a float x is the integer floor(x * SCALE).
SCALE == 10000

K1Num == 3

K1Den == 2

BNum == 3

BDen == 4

LexicalWeightPct == 65

SemanticWeightPct == 35

\* floor(SCALE * math.log(1.0 + (total_docs - count + 0.5) / (count + 0.5))), by total_docs, count
LogTable ==
    << <<2876>>,
       <<6931, 1823>>,
       <<9808, 4700, 1335>>,
       <<12039, 6931, 3566, 1053>>,
       <<13862, 8754, 5389, 2876, 870>> >>

Max(a, b) == IF a >= b THEN a ELSE b

RECURSIVE SumSeq(_)
SumSeq(s) == IF s = <<>> THEN 0 ELSE Head(s) + SumSeq(Tail(s))

RECURSIVE SumOver(_, _)
SumOver(f, S) ==
    IF S = {} THEN 0
    ELSE LET x == CHOOSE y \in S : TRUE IN f[x] + SumOver(f, S \ {x})

\* seq[:k]
Slice(seq, k) ==
    IF k >= 0 THEN SubSeq(seq, 1, IF k < Len(seq) THEN k ELSE Len(seq))
    ELSE SubSeq(seq, 1, Len(seq) + k)

\* Counter(tokens)
Counter(tokens) ==
    [term \in Range(tokens) |-> Cardinality({i \in 1..Len(tokens) : tokens[i] = term})]

\* dict.get(key, default)
Get(dict, key, default) == IF key \in DOMAIN dict THEN dict[key] ELSE default

\* document_frequencies[term]
DocumentFrequency(frequencies, term) ==
    Cardinality({i \in 1..Len(frequencies) : term \in DOMAIN frequencies[i]})

\* The fields LexicalRetriever.__post_init__ sets from the per-record term frequencies and
\* lengths.  _avg_doc_length is kept as the fraction num / den.
LexicalIndex(records, frequencies, doc_lengths) ==
    [ records |-> records,
      _term_frequencies |-> frequencies,
      _doc_lengths |-> doc_lengths,
      _avg_doc_length |-> IF doc_lengths # <<>>
                          THEN [num |-> SumSeq(doc_lengths), den |-> Len(doc_lengths)]
                          ELSE [num |-> 1, den |-> 1],
      _idf |-> [term \in UNION {DOMAIN frequencies[i] : i \in 1..Len(records)} |->
                   LogTable[Max(Len(records), 1)][DocumentFrequency(frequencies, term)]] ]

LexicalRetriever(records) ==
    LexicalIndex(records,
                 [i \in 1..Len(records) |-> Counter(_tokenize(search_blob(records[i])))],
                 [i \in 1..Len(records) |-> Len(_tokenize(search_blob(records[i])))])

\* The term frequency is left out of the numerator's factor: a term scores idf * 0.
TermScoreZero(idf, tf, doc_length, avg) == idf * 0

\* idf * ((tf * (k1 + 1)) / (tf + k1 * (1 - b + b * (doc_length / avg)))), numerator and
\* denominator multiplied by K1Den * BDen * avg.num.
TermScore(idf, tf, doc_length, avg) ==
    (idf * (tf * (K1Num + K1Den) * BDen * avg.num))
        \div (tf * K1Den * BDen * avg.num
              + K1Num * ((BDen - BNum) * avg.num + BNum * doc_length * avg.den))

\* The score of record index after the loop over query_terms.
LexicalScore(self, index, query_terms) ==
    SumOver([term \in query_terms |->
                IF Get(self._term_frequencies[index], term, 0) <= 0 THEN 0
                ELSE TermScore(Get(self._idf, term, 0), self._term_frequencies[index][term],
                               self._doc_lengths[index], self._avg_doc_length)],
            query_terms)

\* The scores are sorted in ascending order.
ScoreAscending(a, b) ==
    a.score < b.score \/ (a.score = b.score /\ StrLess(a.tool_id, b.tool_id))

\* The sort key (-item.score, item.tool_id)
ScoreBefore(a, b) ==
    a.score > b.score \/ (a.score = b.score /\ StrLess(a.tool_id, b.tool_id))

RECURSIVE InsertByScore(_, _)
InsertByScore(sorted, x) ==
    IF sorted = <<>> THEN <<x>>
    ELSE IF ScoreBefore(x, Head(sorted)) THEN <<x>> \o sorted
    ELSE <<Head(sorted)>> \o InsertByScore(Tail(sorted), x)

\* list.sort(key=lambda item: (-item.score, item.tool_id)), stable
RECURSIVE SortScores(_)
SortScores(scores) ==
    IF scores = <<>> THEN <<>>
    ELSE InsertByScore(SortScores(SubSeq(scores, 1, Len(scores) - 1)), scores[Len(scores)])

\* groups is None or Some(list of groups); set(groups or [])
GroupFilter(groups) == IF groups = None THEN {} ELSE Range(groups[1])

\* not (group_filter and record.group not in group_filter)
InFilter(record, groups) == GroupFilter(groups) = {} \/ record.group \in GroupFilter(groups)

\* The scored records of one pass over records, in record order: keep i when score[i] > 0.
RECURSIVE Emit(_, _, _, _, _)
Emit(records, groups, score, reason, i) ==
    IF i > Len(records) THEN <<>>
    ELSE (IF InFilter(records[i], groups) /\ score[i] > 0
          THEN <<[tool_id |-> records[i].tool_id, score |-> score[i], reason |-> reason]>>
          ELSE <<>>)
         \o Emit(records, groups, score, reason, i + 1)

\* LexicalRetriever.search with query_terms = set(_tokenize(query))
LexicalRank(self, query_terms, groups, top_k) ==
    Slice(SortScores(Emit(self.records, groups,
                          [i \in 1..Len(self.records) |-> LexicalScore(self, i, query_terms)],
                          "lexical", 1)),
          top_k)

LexicalSearch(self, query, groups, top_k) ==
    IF top_k <= 0 THEN <<>> ELSE LexicalRank(self, Range(_tokenize(query)), groups, top_k)

SemanticRetriever(records) == [records |-> records]

\* intersection / union for the token sets of the query and of a record, 0 for a record
\* without tokens (skipped)
Jaccard(query_tokens, record_tokens) ==
    IF record_tokens = {} THEN 0
    ELSE (Cardinality(query_tokens \cap record_tokens) * SCALE)
             \div Max(Cardinality(query_tokens \cup record_tokens), 1)

SemanticRank(self, query_tokens, groups, top_k) ==
    Slice(SortScores(Emit(self.records, groups,
                          [i \in 1..Len(self.records) |->
                              Jaccard(query_tokens,
                                      Range(_tokenize(search_blob(self.records[i]))))],
                          "semantic", 1)),
          top_k)

SemanticSearch(self, query, groups, top_k) ==
    IF top_k <= 0 THEN <<>> ELSE SemanticRank(self, Range(_tokenize(query)), groups, top_k)

\* max((item.score for item in scores), default=0.0)
MaxScore(scores) ==
    IF scores = <<>> THEN 0
    ELSE CHOOSE m \in {scores[i].score : i \in 1..Len(scores)} :
             \A i \in 1..Len(scores) : scores[i].score <= m

\* The last item of scores with tool_id id.
LastWithId(scores, id) ==
    scores[CHOOSE i \in 1..Len(scores) :
               /\ scores[i].tool_id = id
               /\ \A j \in (i + 1)..Len(scores) : scores[j].tool_id # id]

\* The dict comprehensions of _normalize given max_score: a later item with the same
\* tool_id replaces an earlier one.
NormalizeBy(scores, max_score) ==
    [id \in {scores[i].tool_id : i \in 1..Len(scores)} |->
        IF max_score <= 0 THEN 0 ELSE (LastWithId(scores, id).score * SCALE) \div max_score]

_normalize(scores) == NormalizeBy(scores, MaxScore(scores))

\* The tool_ids of scores in first-occurrence order (dict insertion order).
RECURSIVE FirstOccurrences(_, _)
FirstOccurrences(scores, seen) ==
    IF scores = <<>> THEN <<>>
    ELSE IF Head(scores).tool_id \in seen THEN FirstOccurrences(Tail(scores), seen)
    ELSE <<Head(scores).tool_id>>
             \o FirstOccurrences(Tail(scores), seen \cup {Head(scores).tool_id})

Occurrences(scores, id) == Cardinality({i \in 1..Len(scores) : scores[i].tool_id = id})

\* by_id[id] after both accumulation loops: every item of a list adds its weight times the
\* normalised score stored under its tool_id.
FusedScore(lexical_scores, semantic_scores, lexical_norm, semantic_norm, id) ==
      Occurrences(lexical_scores, id) * ((LexicalWeightPct * Get(lexical_norm, id, 0)) \div 100)
    + Occurrences(semantic_scores, id) * ((SemanticWeightPct * Get(semantic_norm, id, 0)) \div 100)

\* merged, sorted and cut to top_k, for the keys ids of by_id
Merge(lexical_scores, semantic_scores, lexical_norm, semantic_norm, ids, top_k) ==
    Slice(SortScores([i \in 1..Len(ids) |->
                         [tool_id |-> ids[i],
                          score |-> FusedScore(lexical_scores, semantic_scores,
                                               lexical_norm, semantic_norm, ids[i]),
                          reason |-> "hybrid"]]),
          top_k)

Fuse(lexical_scores, semantic_scores, top_k) ==
    Merge(lexical_scores, semantic_scores, _normalize(lexical_scores),
          _normalize(semantic_scores),
          FirstOccurrences(lexical_scores \o semantic_scores, {}), top_k)

\* HybridRetriever.__post_init__
HybridRetriever(records) ==
    [records |-> records, lexical |-> LexicalRetriever(records),
     semantic |-> SemanticRetriever(records)]

HybridSearch(self, query, groups, top_k) ==
    Fuse(LexicalSearch(self.lexical, query, groups, Max(top_k * 3, top_k)),
         SemanticSearch(self.semantic, query, groups, Max(top_k * 3, top_k)),
         top_k)

\* -------------------------------------------------------------- router.py

group_top_k == 1

tool_top_k == 8

\* HierarchicalRouter.__post_init__
HierarchicalRouter(records) == [records |-> records, _retriever |-> HybridRetriever(records)]

\* The first record with the tool_id, or None.
_get_record(records, tool_id) ==
    IF \E i \in 1..Len(records) : records[i].tool_id = tool_id
    THEN Some(records[CHOOSE i \in 1..Len(records) :
                          /\ records[i].tool_id = tool_id
                          /\ \A j \in 1..(i - 1) : records[j].tool_id # tool_id])
    ELSE None

\* score_by_group[group] = score_by_group.get(group, 0.0) + score, on the list of items
AddScore(acc, group, score) ==
    IF \E i \in 1..Len(acc) : acc[i].group = group
    THEN [i \in 1..Len(acc) |->
             IF acc[i].group = group THEN [acc[i] EXCEPT !.score = @ + score] ELSE acc[i]]
    ELSE Append(acc, [group |-> group, score |-> score])

\* score_by_group as the list of its items in insertion order, after the candidates loop.
RECURSIVE Accumulate(_, _, _)
Accumulate(records, candidates, acc) ==
    IF candidates = <<>> THEN acc
    ELSE Accumulate(records, Tail(candidates),
                    IF _get_record(records, Head(candidates).tool_id) = None THEN acc
                    ELSE AddScore(acc, _get_record(records, Head(candidates).tool_id)[1].group,
                                  Head(candidates).score))

\* The item inserted last is selected, whatever its score.
LastItem(items) == items[Len(items)]

\* max(score_by_group.items(), key=lambda item: item[1]): the first item with the largest score
FirstMax(items) ==
    items[CHOOSE i \in 1..Len(items) :
              /\ \A j \in 1..Len(items) : items[j].score <= items[i].score
              /\ \A j \in 1..(i - 1) : items[j].score < items[i].score]

\* sum(score_by_group.values())
TotalScore(items) == SumSeq([i \in 1..Len(items) |-> items[i].score])

GroupRoute(group, reason, confidence) ==
    [group |-> group, reason |-> reason, confidence |-> confidence]

\* total_score / (sum(score_by_group.values()) or 1.0)
Confidence(total_score, sum) == (total_score * SCALE) \div (IF sum = 0 THEN SCALE ELSE sum)

RouteOfSelected(candidates, selected, sum) ==
    GroupRoute(selected.group,
               <<"top aggregated score from ", Len(candidates), " candidates">>,
               Confidence(selected.score, sum))

RouteOfScores(candidates, score_by_group) ==
    IF score_by_group = <<>> THEN GroupRoute("other", <<"empty score map">>, 0)
    ELSE RouteOfSelected(candidates, FirstMax(score_by_group), TotalScore(score_by_group))

RouteOfCandidates(self, candidates) ==
    IF candidates = <<>> THEN GroupRoute("other", <<"no matching tools">>, 0)
    ELSE RouteOfScores(candidates, Accumulate(self.records, candidates, <<>>))

route_group(self, query) ==
    RouteOfCandidates(self, HybridSearch(self._retriever, query, None, Max(tool_top_k, 12)))

\* group and top_k are None or Some(value)
select_tools(self, query, group, top_k) ==
    HybridSearch(self._retriever, query,
                 Some(<< IF group = None THEN route_group(self, query).group ELSE group[1] >>),
                 IF top_k = None THEN tool_top_k ELSE top_k[1])

\* --------------------------------------------------------------- gateway.py

_parse_group(group) ==
    IF group = None THEN None
    ELSE IF group[1] \in Range(GROUP_NAMES) THEN group
    ELSE None

\* bool(group) for group: str | None
Truthy(group) == group # None /\ group[1] # ""

\* What backend.call_tool returns is a non-list value or a list of content items; a text
\* item carries what json.loads makes of its text (None when it raises JSONDecodeError).
NormalizeItem(item) ==
    IF item.kind = "text" THEN (IF item.json # None THEN item.json[1] ELSE item.text)
    ELSE item

_normalize_tool_result(raw) ==
    IF raw.kind = "list"
    THEN [kind |-> "list", items |-> [i \in 1..Len(raw.items) |-> NormalizeItem(raw.items[i])]]
    ELSE raw

_record_from_id(reg, tool_id) == _get_record(reg, tool_id)

RouteDict(route) ==
    [group |-> route.group, reason |-> route.reason, confidence |-> route.confidence]

\* The results list of tool_search: scores zipped with their records, None records dropped.
RECURSIVE SearchResults(_, _)
SearchResults(reg, scores) ==
    IF scores = <<>> THEN <<>>
    ELSE (IF _record_from_id(reg, Head(scores).tool_id) = None THEN <<>>
          ELSE << [tool_id |-> _record_from_id(reg, Head(scores).tool_id)[1].tool_id,
                   name |-> _record_from_id(reg, Head(scores).tool_id)[1].name,
                   description |-> _record_from_id(reg, Head(scores).tool_id)[1].description,
                   group |-> _record_from_id(reg, Head(scores).tool_id)[1].group,
                   score |-> Head(scores).score, reason |-> Head(scores).reason] >>)
         \o SearchResults(reg, Tail(scores))

\* tool_search from the route on: in-group selection and the result list.  routed is not a
\* key of the returned dict: it records whether route_group ran to obtain the route.
SearchWithRoute(reg, rtr, query, k, group_route, routed) ==
    [success |-> TRUE, query |-> query, route |-> group_route, routed |-> routed,
     results |-> SearchResults(reg, select_tools(rtr, query, Some(group_route.group), Some(k)))]

\* `if group and selected_group is None`
InvalidGroup(group) == Truthy(group) /\ _parse_group(group) = None

\* tool_search runs route_group whether or not a group was given.
ToolSearchAlwaysRoutes(reg, rtr, query, k, group) ==
    SearchWithRoute(reg, rtr, query, k, RouteDict(route_group(rtr, query)), TRUE)

\* tool_search after _ensure_registry, reading registry reg and router rtr.
ToolSearchResult(reg, rtr, query, k, group) ==
    IF InvalidGroup(group)
    THEN [success |-> FALSE, message |-> <<"invalid group: ", group[1]>>]
    ELSE IF _parse_group(group) # None
    THEN SearchWithRoute(reg, rtr, query, k,
                         [group |-> _parse_group(group)[1], reason |-> <<"user_selected">>,
                          confidence |-> SCALE],
                         FALSE)
    ELSE SearchWithRoute(reg, rtr, query, k, RouteDict(route_group(rtr, query)), TRUE)

\* tool_describe / tool_call for a tool_id without a record
NotFound(tool_id) == [success |-> FALSE, message |-> <<"tool_id not found: ", tool_id>>]

DescribeRecord(record) ==
    [success |-> TRUE,
     tool |-> [tool_id |-> record.tool_id, name |-> record.name,
               description |-> record.description, group |-> record.group,
               tags |-> record.tags, input_schema |-> record.input_schema,
               output_schema |-> record.output_schema, schema_hash |-> record.schema_hash]]

ToolDescribeResult(reg, tool_id) ==
    IF _record_from_id(reg, tool_id) = None THEN NotFound(tool_id)
    ELSE DescribeRecord(_record_from_id(reg, tool_id)[1])

\* The backend.call_tool invocation of tool_call, None when the tool_id has no record.
ToolCallRequest(reg, tool_id, arguments) ==
    IF _record_from_id(reg, tool_id) = None THEN None
    ELSE Some([name |-> _record_from_id(reg, tool_id)[1].name, arguments |-> arguments])

\* `arguments = arguments or {}`
ArgumentsOrEmpty(arguments) ==
    IF arguments = None \/ arguments = Some(EmptyObject) THEN EmptyObject ELSE arguments[1]

\* route_and_call up to backend.call_tool: what it returns without calling (request None),
\* or the call it makes with the route and the selected candidate.
PlanForRecord(arguments, route, selected, record) ==
    IF record = None
    THEN [request |-> None,
          result |-> [success |-> FALSE, message |-> "selected tool missing from registry"]]
    ELSE [request |-> Some([name |-> record[1].name, arguments |-> ArgumentsOrEmpty(arguments)]),
          route |-> RouteDict(route),
          selected |-> [tool_id |-> record[1].tool_id, name |-> record[1].name,
                        score |-> selected.score]]

PlanForCandidates(reg, arguments, route, candidates) ==
    IF candidates = <<>>
    THEN [request |-> None,
          result |-> [success |-> FALSE, route |-> RouteDict(route),
                      message |-> "no candidate tools found"]]
    ELSE PlanForRecord(arguments, route, candidates[1],
                       _record_from_id(reg, candidates[1].tool_id))

PlanForRoute(reg, rtr, query, arguments, top_k, route) ==
    PlanForCandidates(reg, arguments, route,
                      select_tools(rtr, query, Some(route.group), Some(Max(top_k, 1))))

RouteAndCallPlan(reg, rtr, query, arguments, top_k) ==
    PlanForRoute(reg, rtr, query, arguments, top_k, route_group(rtr, query))

\* The envelope tool_call / route_and_call return once backend.call_tool returned raw.
CallEnvelope(op, locals, raw) ==
    IF op = "tool_call"
    THEN [success |-> TRUE, tool_id |-> locals.args.tool_id, tool_name |-> locals.request.name,
          result |-> _normalize_tool_result(raw)]
    ELSE [success |-> TRUE, route |-> locals.route, selected |-> locals.selected,
          result |-> _normalize_tool_result(raw)]

\* ------------------------------------------------------- backend inputs

\* Raw tool descriptors (tool.model_dump()) a backend can list.  ToolX1Save and ToolX1Table
\* have the same name and schemas and differ in their description.
ToolX1Save ==
    [name |-> NameX1, description |-> <<"s","a","v","e"," ","i","t">>,
     inputSchema |-> None, outputSchema |-> None]

ToolX1Table ==
    [name |-> NameX1, description |-> <<"p","d","f"," ","t","a","b","l","e">>,
     inputSchema |-> None, outputSchema |-> None]

ToolPing ==
    [name |-> NamePing, description |-> <<" ","P","i","n","g">>,
     inputSchema |-> Some(TypeObjectSchema), outputSchema |-> None]

\* Longest tool list the backend returns.
MaxTools == 2

SeqsUpTo(S, n) == UNION {[1..m -> S] : m \in 0..n}

QueryTable == <<"t","a","b","l","e">>

QuerySavePing == <<"s","a","v","e"," ","p","i","n","g">>

UnknownToolId == <<"n","o","p","e",":","0">>

ArgsPath == {<<"path", "out">>}

RawDict == [kind |-> "value", value |-> {<<"success", TRUE>>}]

RawTextList ==
    [kind |-> "list",
     items |-> << [kind |-> "text", text |-> "{\"success\": false}",
                   json |-> Some({<<"success", FALSE>>})],
                  [kind |-> "text", text |-> "pong", json |-> None] >>]

\* The callers and the inputs they and the backend draw from: one caller with every input,
\* or two interleaved callers with one input of each kind.
SequentialWorkload ==
    [ callers |-> {"t1"},
      descriptors |-> {ToolX1Save, ToolX1Table, ToolPing},
      queries |-> {QueryTable, QuerySavePing},
      ks |-> {1, 8},
      groups |-> {None, Some(""), Some("bogus"), Some("table_chart"), Some("util_debug")},
      tool_ids |-> {_convert_tool(ToolX1Save).tool_id, _convert_tool(ToolPing).tool_id,
                    UnknownToolId},
      arguments |-> {EmptyObject, ArgsPath},
      optional_arguments |-> {None, Some(EmptyObject), Some(ArgsPath)},
      top_ks |-> {0, 1},
      raw_results |-> {RawDict, RawTextList} ]

ConcurrentWorkload ==
    [ callers |-> {"t1", "t2"},
      descriptors |-> {ToolX1Save, ToolPing},
      queries |-> {QuerySavePing},
      ks |-> {8},
      groups |-> {None},
      tool_ids |-> {_convert_tool(ToolX1Save).tool_id},
      arguments |-> {ArgsPath},
      optional_arguments |-> {None},
      top_ks |-> {1},
      raw_results |-> {RawDict} ]

Catalogs(W) == SeqsUpTo(W.descriptors, MaxTools)

\* ------------------------------------------------ the gateway's coroutines

Tasks == {"t1", "t2"}

VARIABLES
    registry,   \* AgenticGateway.registry
    _router,    \* AgenticGateway._router: None or Some(HierarchicalRouter)
    task,       \* per coroutine: where it is, the operation it runs and its locals
    _tool_callables  \* ToolOnlyAgent._tool_callables: the tool names with a direct callable

vars == <<registry, _router, task, _tool_callables>>

\* A coroutine is suspended at backend.list_tools or backend.call_tool, or it is the one
\* the event loop runs: between two suspension points no other coroutine takes a step.
\* The parameters of an operation are locals nothing reads before its first suspension
\* point, so an operation's action draws them where it first uses them.
Running == {"assign_router", "body", "calling", "return"}

\* The event loop resumes a coroutine while another one is between two suspension points.
CanRunPreemptive(t) == TRUE

CanRun(t) == \A u \in Tasks \ {t} : task[u].pc \notin Running

Idle == [pc |-> "idle", op |-> "none", locals |-> <<>>]

Init ==
    /\ registry = <<>>
    /\ _router = None
    /\ task = [t \in Tasks |-> Idle]
    /\ _tool_callables = {}

Returned(value) == [kind |-> "return", value |-> value]

Raised(from) == [kind |-> "raise", from |-> from]

\* One backend.call_tool invocation and how it ended.
BackendCalled(request, outcome) ==
    [name |-> request.name, arguments |-> request.arguments, outcome |-> outcome]

\* The coroutine is about to hand result to its caller; calls are the backend.call_tool
\* invocations it made.
Finish(t, args, result, calls) ==
    task' = [task EXCEPT ![t] = [pc |-> "return", op |-> task[t].op,
                                 locals |-> [args |-> args, result |-> result, calls |-> calls]]]

ReaderOps == {"tool_search", "tool_describe", "tool_call", "route_and_call"}

\* _ensure_registry: `if not self.registry`
NeedsRefresh(reg) == reg = <<>>

\* A caller starts refresh_registry: it runs to `await server.list_tools()`.
RefreshCall(t, W) ==
    /\ t \in W.callers
    /\ task[t].pc = "idle"
    /\ CanRun(t)
    /\ task' = [task EXCEPT ![t] = [pc |-> "list_tools", op |-> "refresh_registry", locals |-> <<>>]]
    /\ UNCHANGED <<registry, _router, _tool_callables>>

\* A caller starts a reader operation: _ensure_registry either calls refresh_registry, which
\* runs to `await server.list_tools()`, or returns and the operation goes on.
ReaderCall(t, W) ==
    /\ t \in W.callers
    /\ task[t].pc = "idle"
    /\ CanRun(t)
    /\ \E op \in ReaderOps :
           task' = [task EXCEPT ![t] =
                       [pc |-> IF NeedsRefresh(registry) THEN "list_tools" ELSE "body",
                        op |-> op, locals |-> <<>>]]
    /\ UNCHANGED <<registry, _router, _tool_callables>>

\* backend.list_tools returns tools: build_registry converts and sorts them and
\* refresh_registry assigns self.registry.
ListToolsReturn(t, W) ==
    /\ task[t].pc = "list_tools"
    /\ CanRun(t)
    /\ \E tools \in Catalogs(W) : registry' = build_registry(tools)
    /\ task' = [task EXCEPT ![t].pc = "assign_router"]
    /\ UNCHANGED <<_router, _tool_callables>>

\* refresh_registry assigns self._router and returns: to its caller, or to the reader
\* operation whose _ensure_registry called it.
AssignRouter(t) ==
    /\ task[t].pc = "assign_router"
    /\ _router' = Some(HierarchicalRouter(registry))
    /\ IF task[t].op = "refresh_registry"
       THEN Finish(t, <<>>, Returned([success |-> TRUE, count |-> Len(registry)]), <<>>)
       ELSE task' = [task EXCEPT ![t].pc = "body"]
    /\ UNCHANGED <<registry, _tool_callables>>

\* The failure of backend.list_tools is swallowed and leaves an empty registry without router.
ListToolsFailClears(t) ==
    /\ task[t].pc = "list_tools"
    /\ CanRun(t)
    /\ Finish(t, <<>>, Returned([success |-> FALSE]), <<>>)
    /\ registry' = <<>>
    /\ _router' = None
    /\ UNCHANGED _tool_callables

\* backend.list_tools raises: the exception leaves build_registry, refresh_registry and,
\* for a reader, _ensure_registry and the operation, before anything is assigned.
ListToolsFail(t) ==
    /\ task[t].pc = "list_tools"
    /\ CanRun(t)
    /\ Finish(t, <<>>, Raised("list_tools"), <<>>)
    /\ UNCHANGED <<registry, _router, _tool_callables>>

ToolSearch(t, W) ==
    /\ task[t].pc = "body"
    /\ task[t].op = "tool_search"
    /\ \E query \in W.queries, k \in W.ks, group \in W.groups :
           Finish(t, [query |-> query, k |-> k, group |-> group],
                  Returned(ToolSearchResult(registry, _router[1], query, k, group)), <<>>)
    /\ UNCHANGED <<registry, _router, _tool_callables>>

ToolDescribe(t, W) ==
    /\ task[t].pc = "body"
    /\ task[t].op = "tool_describe"
    /\ \E tool_id \in W.tool_ids :
           Finish(t, [tool_id |-> tool_id],
                  Returned(ToolDescribeResult(registry, tool_id)), <<>>)
    /\ UNCHANGED <<registry, _router, _tool_callables>>

\* The coroutine is about to await backend.call_tool(request.name, request.arguments).
Calling(t, args, request, route, selected) ==
    task' = [task EXCEPT ![t] =
                [pc |-> "calling", op |-> task[t].op,
                 locals |-> [args |-> args, request |-> request, route |-> route,
                             selected |-> selected]]]

\* tool_call up to its return or its backend.call_tool
ToolCall(t, W) ==
    /\ task[t].pc = "body"
    /\ task[t].op = "tool_call"
    /\ \E tool_id \in W.tool_ids, arguments \in W.arguments :
           IF ToolCallRequest(registry, tool_id, arguments) = None
           THEN Finish(t, [tool_id |-> tool_id, arguments |-> arguments],
                       Returned(NotFound(tool_id)), <<>>)
           ELSE Calling(t, [tool_id |-> tool_id, arguments |-> arguments],
                        ToolCallRequest(registry, tool_id, arguments)[1], None, None)
    /\ UNCHANGED <<registry, _router, _tool_callables>>

RouteAndCallStep(t, args, plan) ==
    IF plan.request = None
    THEN Finish(t, args, Returned(plan.result), <<>>)
    ELSE Calling(t, args, plan.request[1], Some(plan.route), Some(plan.selected))

\* route_and_call up to its return or its backend.call_tool
RouteAndCall(t, W) ==
    /\ task[t].pc = "body"
    /\ task[t].op = "route_and_call"
    /\ \E query \in W.queries, arguments \in W.optional_arguments, top_k \in W.top_ks :
           RouteAndCallStep(t, [query |-> query, arguments |-> arguments, top_k |-> top_k],
                            RouteAndCallPlan(registry, _router[1], query, arguments, top_k))
    /\ UNCHANGED <<registry, _router, _tool_callables>>

\* `await self.backend_server.call_tool(record.name, arguments)`: the coroutine suspends.
BackendCall(t) ==
    /\ task[t].pc = "calling"
    /\ task' = [task EXCEPT ![t].pc = "call_tool"]
    /\ UNCHANGED <<registry, _router, _tool_callables>>

CallToolReturn(t, W) ==
    /\ task[t].pc = "call_tool"
    /\ CanRun(t)
    /\ \E raw \in W.raw_results :
           Finish(t, task[t].locals.args,
                  Returned(CallEnvelope(task[t].op, task[t].locals, raw)),
                  <<BackendCalled(task[t].locals.request, Returned(raw))>>)
    /\ UNCHANGED <<registry, _router, _tool_callables>>

\* tool_call catches the backend's error and returns it as an envelope.
CallToolFailEnvelope(t) ==
    /\ task[t].pc = "call_tool"
    /\ CanRun(t)
    /\ Finish(t, task[t].locals.args,
              Returned([success |-> FALSE, message |-> "backend error"]),
              <<BackendCalled(task[t].locals.request, Raised("backend"))>>)
    /\ UNCHANGED <<registry, _router, _tool_callables>>

\* backend.call_tool raises: nothing in tool_call or route_and_call catches it.
CallToolFail(t) ==
    /\ task[t].pc = "call_tool"
    /\ CanRun(t)
    /\ Finish(t, task[t].locals.args, Raised("call_tool"),
              <<BackendCalled(task[t].locals.request, Raised("backend"))>>)
    /\ UNCHANGED <<registry, _router, _tool_callables>>

\* The operation's caller takes the result or the exception.
Return(t) ==
    /\ task[t].pc = "return"
    /\ task' = [task EXCEPT ![t] = Idle]
    /\ UNCHANGED <<registry, _router, _tool_callables>>

NextFor(W) ==
    \E t \in Tasks :
        \/ RefreshCall(t, W)
        \/ ReaderCall(t, W)
        \/ ListToolsReturn(t, W)
        \/ AssignRouter(t)
        \/ ListToolsFail(t)
        \/ ToolSearch(t, W)
        \/ ToolDescribe(t, W)
        \/ ToolCall(t, W)
        \/ RouteAndCall(t, W)
        \/ BackendCall(t)
        \/ CallToolReturn(t, W)
        \/ CallToolFail(t)
        \/ Return(t)

Next == NextFor(SequentialWorkload)

NextConcurrent == NextFor(ConcurrentWorkload)

Spec == Init /\ [][Next]_vars

SpecConcurrent == Init /\ [][NextConcurrent]_vars

\* ------------------------------------------------------------------ claims

\* A reader operation of task t is at the point where it reads self.registry and
\* self._router (after _ensure_registry, before its return or its backend.call_tool).
Reading(t) == task[t].pc = "body"

\* C1: in every interleaving of refresh_registry with the reader operations, a reader reads
\* a registry that is the complete build of one backend tool list, together with the router
\* built from that same registry: never a half-built registry, never a router of another
\* registry.
C1_AtomicReplacement ==
    \A t \in Tasks :
        Reading(t) =>
            /\ \E tools \in Catalogs(ConcurrentWorkload) : registry = build_registry(tools)
            /\ _router # None
            /\ _router[1] = HierarchicalRouter(registry)

\* A reader reads a built registry while another coroutine's refresh_registry is suspended
\* at backend.list_tools.
C1_Witness ==
    \E t \in Tasks : \E u \in Tasks \ {t} :
        /\ Reading(t)
        /\ registry # <<>>
        /\ task[u].pc = "list_tools"
        /\ task[u].op = "refresh_registry"

\* C2: when backend.list_tools fails, in refresh_registry or in the refresh a reader's
\* _ensure_registry makes, the coroutine raises that failure to its caller, and the step
\* leaves self.registry and self._router as they were.
C2_ListToolsFailure ==
    [][\A t \in Tasks :
          (task[t].pc = "list_tools" /\ task'[t].pc \notin {"list_tools", "assign_router"}) =>
              /\ task'[t].pc = "return"
              /\ task'[t].locals.result = Raised("list_tools")
              /\ task'[t].locals.calls = <<>>
              /\ registry' = registry
              /\ _router' = _router]_vars

\* backend.list_tools failed for a reader's implicit refresh while the gateway holds a
\* registry another coroutine built.
C2_Witness ==
    \E t \in Tasks :
        /\ task[t].pc = "return"
        /\ task[t].op \in ReaderOps
        /\ task[t].locals.result = Raised("list_tools")
        /\ registry # <<>>
        /\ _router # None

\* C3: once the registry has been built (self._router is assigned at the end of every
\* build), only refresh_registry calls backend.list_tools: a reader operation never does,
\* whatever catalog the backend listed.
C3_RegistryHeld ==
    [][\A t \in Tasks :
          (_router # None /\ task[t].pc = "idle" /\ task'[t].pc = "list_tools") =>
              task'[t].op = "refresh_registry"]_vars

\* C4: no two distinct records of self.registry share a tool_id.
C4_ToolIdUnique ==
    \A i \in 1..Len(registry), j \in 1..Len(registry) :
        registry[i] # registry[j] => registry[i].tool_id # registry[j].tool_id

\* tool_call is about to hand its result to its caller, and its registry was built.
ToolCallDone(t) ==
    /\ task[t].op = "tool_call"
    /\ task[t].pc = "return"
    /\ task[t].locals.result # Raised("list_tools")

\* What C5 says of a tool_call with the tool_id and arguments of args, given the record of
\* the tool_id (None or Some), the result and the backend.call_tool invocations made.
C5_Holds(args, record, result, calls) ==
    IF record = None
    THEN /\ result = Returned([success |-> FALSE,
                               message |-> <<"tool_id not found: ", args.tool_id>>])
         /\ calls = <<>>
    ELSE /\ Len(calls) = 1
         /\ calls[1].name = record[1].name
         /\ calls[1].arguments = args.arguments
         /\ calls[1].outcome.kind = "raise" => result = Raised("call_tool")
         /\ calls[1].outcome.kind = "return" =>
                /\ result.kind = "return"
                /\ result.value.success = TRUE
                /\ result.value.tool_id = args.tool_id
                /\ result.value.tool_name = record[1].name

\* C5: tool_call with a tool_id that has no record returns the not-found envelope and never
\* invokes backend.call_tool; with a known tool_id it invokes backend.call_tool exactly once,
\* with the record's name and the given arguments, and raises when that call raised.
C5_ToolCall ==
    \A t \in Tasks :
        ToolCallDone(t) =>
            C5_Holds(task[t].locals.args,
                     _get_record(registry, task[t].locals.args.tool_id),
                     task[t].locals.result, task[t].locals.calls)

\* tool_call of a known tool_id raises after its one backend.call_tool raised.
C5_Witness ==
    \E t \in Tasks :
        /\ ToolCallDone(t)
        /\ _get_record(registry, task[t].locals.args.tool_id) # None
        /\ task[t].locals.calls # <<>>
        /\ task[t].locals.result = Raised("call_tool")

\* route_and_call is about to hand its result to its caller, and its registry was built.
RouteAndCallDone(t) ==
    /\ task[t].op = "route_and_call"
    /\ task[t].pc = "return"
    /\ task[t].locals.result # Raised("list_tools")

\* What C6 says of a route_and_call, given the routed group and the in-group candidates.
C6_Holds(args, route, candidates, result, calls) ==
    /\ candidates = <<>> =>
           /\ result = Returned([success |-> FALSE, route |-> RouteDict(route),
                                 message |-> "no candidate tools found"])
           /\ calls = <<>>
    /\ candidates # <<>> =>
           /\ Len(calls) = 1
           /\ calls[1].name = _get_record(registry, candidates[1].tool_id)[1].name
           /\ calls[1].arguments =
                  (IF args.arguments = None THEN EmptyObject ELSE args.arguments[1])
    /\ route.confidence > 0 => candidates # <<>>

C6_ForRoute(args, route, result, calls) ==
    C6_Holds(args, route,
             select_tools(_router[1], args.query, Some(route.group), Some(Max(args.top_k, 1))),
             result, calls)

\* C6: route_and_call routes a group, takes the first in-group candidate and invokes
\* backend.call_tool exactly once for it with the given arguments ({} by default); without a
\* candidate it returns the no-candidate envelope and invokes nothing; and a group routed
\* with confidence > 0 always has a candidate.
C6_RouteAndCall ==
    \A t \in Tasks :
        RouteAndCallDone(t) =>
            C6_ForRoute(task[t].locals.args, route_group(_router[1], task[t].locals.args.query),
                        task[t].locals.result, task[t].locals.calls)

\* tool_search is about to return value to its caller.
ToolSearchDone(t) ==
    /\ task[t].op = "tool_search"
    /\ task[t].pc = "return"
    /\ task[t].locals.result.kind = "return"

\* C7: tool_search with a supplied group that is not a recognized group, the empty string
\* included, returns success false with a message and neither route nor results.
C7_UnknownGroup ==
    \A t \in Tasks :
        ( /\ ToolSearchDone(t)
          /\ task[t].locals.args.group # None
          /\ task[t].locals.args.group[1] \notin Range(GROUP_NAMES) ) =>
            /\ task[t].locals.result.value.success = FALSE
            /\ "message" \in DOMAIN task[t].locals.result.value
            /\ "route" \notin DOMAIN task[t].locals.result.value
            /\ "results" \notin DOMAIN task[t].locals.result.value

\* tool_search was called with a recognized group.
SearchedWithGroup(t) ==
    /\ ToolSearchDone(t)
    /\ task[t].locals.args.group # None
    /\ task[t].locals.args.group[1] \in Range(GROUP_NAMES)

\* C8: tool_search with a recognized group X returns the route (X, 'user_selected', 1.0)
\* and does not run route_group, whatever the query and the registry.
C8_UserSelectedGroup ==
    \A t \in Tasks :
        SearchedWithGroup(t) =>
            /\ "route" \in DOMAIN task[t].locals.result.value
            /\ task[t].locals.result.value.route =
                   [group |-> task[t].locals.args.group[1], reason |-> <<"user_selected">>,
                    confidence |-> SCALE]
            /\ ~task[t].locals.result.value.routed

\* tool_search with a recognized group found a tool of that group.
C8_Witness ==
    \E t \in Tasks :
        /\ SearchedWithGroup(t)
        /\ task[t].locals.result.value.success
        /\ task[t].locals.result.value.results # <<>>

\* C9: every result of tool_search belongs to the group of its route, user-supplied or
\* routed.
C9_InGroupOnly ==
    \A t \in Tasks :
        (ToolSearchDone(t) /\ task[t].locals.result.value.success) =>
            \A i \in 1..Len(task[t].locals.result.value.results) :
                task[t].locals.result.value.results[i].group =
                    task[t].locals.result.value.route.group

\* tool_search returned a route that route_group computed.
SearchRouted(t) ==
    /\ ToolSearchDone(t)
    /\ task[t].locals.result.value.success
    /\ task[t].locals.result.value.routed

\* What C10 says of the route of a query, given the candidates of hybrid search and the
\* scores accumulated by group.
C10_Holds(route, candidates, score_by_group) ==
    IF candidates = <<>>
    THEN route = [group |-> "other", reason |-> <<"no matching tools">>, confidence |-> 0]
    ELSE /\ 0 < route.confidence
         /\ route.confidence <= SCALE
         /\ \E i \in 1..Len(score_by_group) :
                /\ score_by_group[i].group = route.group
                /\ \A j \in 1..Len(score_by_group) :
                       score_by_group[j].score <= score_by_group[i].score
                /\ TotalScore(score_by_group) > 0
                /\ route.confidence =
                       (score_by_group[i].score * SCALE) \div TotalScore(score_by_group)

C10_ForCandidates(route, candidates) ==
    C10_Holds(route, candidates, Accumulate(registry, candidates, <<>>))

\* C10: route_group returns 0 < confidence <= 1, the selected group's share of the
\* accumulated score, when hybrid search yields a candidate, and ('other', 'no matching
\* tools', 0) when it yields none; the selected group has the largest accumulated score.
C10_RouterConfidence ==
    \A t \in Tasks :
        SearchRouted(t) =>
            C10_ForCandidates(task[t].locals.result.value.route,
                              HybridSearch(_router[1]._retriever, task[t].locals.args.query,
                                           None, Max(tool_top_k, 12)))

\* route_group selected a group among several: its confidence is below 1.
C10_Witness ==
    \E t \in Tasks :
        /\ SearchRouted(t)
        /\ 0 < task[t].locals.result.value.route.confidence
        /\ task[t].locals.result.value.route.confidence < SCALE

\* ------------------------------------------- the library called directly

\* A descriptor whose name is blank.
ToolBlank ==
    [name |-> <<" "," ">>, description |-> <<"p","i","n","g">>,
     inputSchema |-> None, outputSchema |-> None]

\* A query without any token.
QueryNoTerms == <<"?","!">>

\* The inputs of a client that builds a registry and calls the retrievers and
\* classify_group on it.
LibraryWorkload ==
    [ callers |-> {"t1"},
      descriptors |-> {ToolX1Save, ToolX1Table, ToolPing, ToolBlank},
      queries |-> {QueryTable, QuerySavePing, QueryNoTerms},
      groups |-> {None, Some(<<"table_chart">>), Some(<<"document_lifecycle", "util_debug">>)},
      top_ks |-> {-1, 0, 1, 12},
      texts |-> { [tool_name |-> <<"T","a","b","l","e">>, description |-> <<"s","a","v","e"," ","P","D","F">>],
                  [tool_name |-> <<"E","X","P","O","R","T">>, description |-> <<"F","i","n","d"," ","c","e","l","l">>],
                  [tool_name |-> <<"z","z","z">>, description |-> <<"P","i","n","g"," ","m","e">>],
                  [tool_name |-> <<"d","o","c","s">>, description |-> <<"h","t","m","l">>],
                  [tool_name |-> <<"z","z","z">>, description |-> <<>>] } ]

\* The client has called op with the inputs, and got the outputs, of locals.
Called(t, op, locals) ==
    task' = [task EXCEPT ![t] = [pc |-> "called", op |-> op, locals |-> locals]]

\* build_registry on a backend that lists tools, and a HierarchicalRouter over the records,
\* as refresh_registry makes them.
LibraryBuild(t, W) ==
    /\ t \in W.callers
    /\ task[t].pc = "idle"
    /\ \E tools \in Catalogs(W) :
           /\ registry' = build_registry(tools)
           /\ _router' = Some(HierarchicalRouter(build_registry(tools)))
           /\ Called(t, "build_registry", [tools |-> tools])
    /\ UNCHANGED _tool_callables

\* The three retrievers of the router searched with the same query, groups and top_k.
Searched(self, query, groups, top_k) ==
    [query |-> query, groups |-> groups, top_k |-> top_k,
     lexical |-> LexicalSearch(self.lexical, query, groups, top_k),
     semantic |-> SemanticSearch(self.semantic, query, groups, top_k),
     hybrid |-> HybridSearch(self, query, groups, top_k)]

LibrarySearch(t, W) ==
    /\ t \in W.callers
    /\ task[t].pc = "idle"
    /\ _router # None
    /\ \E query \in W.queries, groups \in W.groups, top_k \in W.top_ks :
           Called(t, "search", Searched(_router[1]._retriever, query, groups, top_k))
    /\ UNCHANGED <<registry, _router, _tool_callables>>

LibraryClassify(t, W) ==
    /\ t \in W.callers
    /\ task[t].pc = "idle"
    /\ \E text \in W.texts :
           Called(t, "classify_group",
                  [tool_name |-> text.tool_name, description |-> text.description,
                   group |-> classify_group(text.tool_name, text.description)])
    /\ UNCHANGED <<registry, _router, _tool_callables>>

\* The client takes the outputs and is ready for its next call.
LibraryReturn(t) ==
    /\ task[t].pc = "called"
    /\ task' = [task EXCEPT ![t] = Idle]
    /\ UNCHANGED <<registry, _router, _tool_callables>>

NextLibrary ==
    \E t \in Tasks :
        \/ LibraryBuild(t, LibraryWorkload)
        \/ LibrarySearch(t, LibraryWorkload)
        \/ LibraryClassify(t, LibraryWorkload)
        \/ LibraryReturn(t)

SpecLibrary == Init /\ [][NextLibrary]_vars

\* The client of task t has searched the retrievers.
SearchCalled(t) == task[t].pc = "called" /\ task[t].op = "search"

\* C11: every fused score HybridRetriever.search returns is in [0, 1.0], for every registry
\* and query.
C11_FusionBounds ==
    \A t \in Tasks :
        SearchCalled(t) =>
            \A i \in 1..Len(task[t].locals.hybrid) :
                /\ 0 <= task[t].locals.hybrid[i].score
                /\ task[t].locals.hybrid[i].score <= SCALE

\* What C12 says of the list scores a retriever returned for top_k.
C12_Holds(scores, top_k) ==
    /\ \A i \in 1..Len(scores) : scores[i].score > 0
    /\ \A i \in 1..Len(scores), j \in 1..Len(scores) :
           i < j => \/ scores[i].score > scores[j].score
                    \/ /\ scores[i].score = scores[j].score
                       /\ ~StrLess(scores[j].tool_id, scores[i].tool_id)
    /\ top_k <= 0 => scores = <<>>
    /\ top_k > 0 => Len(scores) <= top_k

\* C12: the lexical, the semantic and the hybrid retriever each return only scores > 0, in
\* descending order of score with ties in ascending order of tool_id, at most top_k of
\* them, and none when top_k <= 0.
C12_RetrieverOrder ==
    \A t \in Tasks :
        SearchCalled(t) =>
            /\ C12_Holds(task[t].locals.lexical, task[t].locals.top_k)
            /\ C12_Holds(task[t].locals.semantic, task[t].locals.top_k)
            /\ C12_Holds(task[t].locals.hybrid, task[t].locals.top_k)
            /\ \A i \in 1..Len(task[t].locals.hybrid) :
                   task[t].locals.hybrid[i].reason = "hybrid"

\* The retrievers returned two scored records in descending order of score.
C12_Witness ==
    \E t \in Tasks :
        /\ SearchCalled(t)
        /\ Len(task[t].locals.lexical) = 2
        /\ Len(task[t].locals.semantic) = 2
        /\ Len(task[t].locals.hybrid) = 2
        /\ task[t].locals.hybrid[1].score > task[t].locals.hybrid[2].score

\* The tokens of the search blob of a record.
BlobTerms(record) == Range(_tokenize(search_blob(record)))

\* The lexical score of every record of the registry for the query: record i containing
\* every query term scores strictly higher than record j containing none.
C13_Higher(self, terms) ==
    \A i \in 1..Len(registry), j \in 1..Len(registry) :
        (terms \subseteq BlobTerms(registry[i]) /\ terms \cap BlobTerms(registry[j]) = {}) =>
            LexicalScore(self, i, terms) > LexicalScore(self, j, terms)

\* C13 as stated: for every registry and every query, a record whose search blob contains
\* all query terms scores strictly higher, lexically, than a record containing none.
C13_Monotone ==
    \A t \in Tasks :
        SearchCalled(t) =>
            C13_Higher(_router[1]._retriever.lexical, Range(_tokenize(task[t].locals.query)))

\* A record without any query term scores 0, a record with one scores > 0, and the records
\* search emits without group filter and with top_k = 12 are those that score > 0.
C13_Emitted(self, terms, locals) ==
    /\ \A i \in 1..Len(registry) :
           IF terms \cap BlobTerms(registry[i]) = {}
           THEN LexicalScore(self, i, terms) = 0
           ELSE LexicalScore(self, i, terms) > 0
    /\ (locals.groups = None /\ locals.top_k = 12) =>
           Len(locals.lexical) =
               Cardinality({i \in 1..Len(registry) : terms \cap BlobTerms(registry[i]) # {}})

\* C13, for queries with at least one term: a record containing all query terms scores
\* strictly higher, lexically, than a record containing none; a record containing none
\* scores 0 and is not emitted, and a record containing one scores > 0.
C13_MonotoneWithTerms ==
    \A t \in Tasks :
        (SearchCalled(t) /\ _tokenize(task[t].locals.query) # <<>>) =>
            /\ C13_Higher(_router[1]._retriever.lexical,
                          Range(_tokenize(task[t].locals.query)))
            /\ C13_Emitted(_router[1]._retriever.lexical,
                           Range(_tokenize(task[t].locals.query)), task[t].locals)

\* A search whose query has terms, over a registry with a record containing all of them
\* and a record containing none.
C13_Witness ==
    \E t \in Tasks :
        /\ SearchCalled(t)
        /\ _tokenize(task[t].locals.query) # <<>>
        /\ \E i \in 1..Len(registry), j \in 1..Len(registry) :
               /\ Range(_tokenize(task[t].locals.query)) \subseteq BlobTerms(registry[i])
               /\ Range(_tokenize(task[t].locals.query)) \cap BlobTerms(registry[j]) = {}

\* C14: no record with an empty name is in the registry (converting a descriptor whose
\* name is empty after trimming fails).
C14_NoEmptyName ==
    \A i \in 1..Len(registry) : registry[i].name # <<>>

\* The client of task t has called classify_group.
ClassifyCalled(t) == task[t].pc = "called" /\ task[t].op = "classify_group"

\* A keyword of entry k of GROUP_KEYWORDS occurs in lowered.
KeywordHit(lowered, k) ==
    \E i \in 1..Len(GROUP_KEYWORDS[k].keywords) : Contains(lowered, GROUP_KEYWORDS[k].keywords[i])

\* What C15 says of the group classify_group returned for the lowercased text.
C15_Holds(lowered, group) ==
    /\ group \in Range(GROUP_NAMES)
    /\ [k \in 1..8 |-> GROUP_KEYWORDS[k].group] =
           <<"document_lifecycle", "text_insertion", "table_chart", "field_meta",
             "find_replace", "xml_direct", "export_convert", "util_debug">>
    /\ group = "other" <=> \A k \in 1..8 : ~KeywordHit(lowered, k)
    /\ \A k \in 1..8 :
           GROUP_KEYWORDS[k].group = group =>
               /\ KeywordHit(lowered, k)
               /\ \A h \in 1..(k - 1) : ~KeywordHit(lowered, h)

\* C15: classify_group returns the first group in the declared order with a keyword that is
\* a substring of the lowercased '{name} {description}', 'other' exactly when no keyword of
\* any group occurs, and always one of the nine groups.
C15_ClassifyOrder ==
    \A t \in Tasks :
        ClassifyCalled(t) =>
            C15_Holds(Lower(task[t].locals.tool_name \o <<" ">> \o task[t].locals.description),
                      task[t].locals.group)

\* classify_group returned a group although a keyword of a later group occurs too.
C15_Witness ==
    \E t \in Tasks :
        /\ ClassifyCalled(t)
        /\ task[t].locals.group = "table_chart"
        /\ KeywordHit(Lower(task[t].locals.tool_name \o <<" ">> \o task[t].locals.description), 5)
        /\ KeywordHit(Lower(task[t].locals.tool_name \o <<" ">> \o task[t].locals.description), 7)

\* C16: after every refresh_registry the gateway's registry is sorted non-decreasing by
\* name.
C16_SortedByName ==
    \A i \in 1..Len(registry), j \in 1..Len(registry) :
        i < j => ~StrLess(registry[j].name, registry[i].name)

\* A refresh has built a registry of records with two names.
C16_Witness ==
    /\ _router # None
    /\ Len(registry) = 2
    /\ StrLess(registry[1].name, registry[2].name)

\* ------------------------------------------------------ tool_only_agent.py

\* re.search of q([^q]+)q for a quote character q: None, or Some(group(1)) of the leftmost
\* match, the text between a q and the next q that is not right behind it.
RECURSIVE QuotedBy(_, _)
QuotedBy(message, q) ==
    IF Len(message) < 3 THEN None
    ELSE IF Head(message) = q /\ message[2] # q /\ (\E j \in 3..Len(message) : message[j] = q)
    THEN Some(SubSeq(message, 2,
                     (CHOOSE j \in 3..Len(message) :
                          message[j] = q /\ \A k \in 3..(j - 1) : message[k] # q) - 1))
    ELSE QuotedBy(Tail(message), q)

\* Double quotes are looked for before single quotes; the match is stripped.
_extract_quoted_text(message) ==
    IF QuotedBy(message, "\"") # None THEN Some(Strip(QuotedBy(message, "\"")[1]))
    ELSE IF QuotedBy(message, "'") # None THEN Some(Strip(QuotedBy(message, "'")[1]))
    ELSE None

\* The checks of _parse_intent with the template check moved behind the save check.
IntentChecksTemplateLate ==
    << [intent |-> "status", tokens |-> <<<<"s","t","a","t","u","s">>, <<"p","i","n","g">>, <<"U+C0C1","U+D0DC">>, <<"U+D5EC","U+C2A4">>>>],
       [intent |-> "capabilities", tokens |-> <<<<"c","a","p","a","b","i","l","i","t","y">>, <<"c","a","p","a","b","i","l","i","t","i","e","s">>, <<"U+C9C0","U+C6D0">>, <<"U+AC00","U+B2A5">>>>],
       [intent |-> "export_pdf", tokens |-> <<<<"e","x","p","o","r","t"," ","p","d","f">>, <<"p","d","f">>, <<"U+B0B4","U+BCF4","U+B0B4","U+AE30">>>>],
       [intent |-> "save", tokens |-> <<<<"s","a","v","e">>, <<"U+C800","U+C7A5">>>>],
       [intent |-> "template", tokens |-> <<<<"t","e","m","p","l","a","t","e">>, <<"U+D15C","U+D50C","U+B9BF">>, <<"U+C591","U+C2DD">>>>],
       [intent |-> "search", tokens |-> <<<<"f","i","n","d">>, <<"s","e","a","r","c","h">>, <<"U+CC3E","U+AE30">>, <<"U+AC80","U+C0C9">>>>],
       [intent |-> "insert_text", tokens |-> <<<<"i","n","s","e","r","t">>, <<"w","r","i","t","e">>, <<"U+C791","U+C131">>, <<"U+CD94","U+AC00">>, <<"U+C785","U+B825">>>>],
       [intent |-> "create", tokens |-> <<<<"c","r","e","a","t","e">>, <<"n","e","w">>, <<"U+BB38","U+C11C"," ","U+C0DD","U+C131">>, <<"U+C0C8"," ","U+BB38","U+C11C">>, <<"U+B9CC","U+B4E4">>>>] >>


\* The `if any(token in lowered for token in (...))` statements of _parse_intent, in the
\* order they are written.
IntentChecks ==
    << [intent |-> "status", tokens |-> <<<<"s","t","a","t","u","s">>, <<"p","i","n","g">>, <<"U+C0C1","U+D0DC">>, <<"U+D5EC","U+C2A4">>>>],
       [intent |-> "capabilities", tokens |-> <<<<"c","a","p","a","b","i","l","i","t","y">>, <<"c","a","p","a","b","i","l","i","t","i","e","s">>, <<"U+C9C0","U+C6D0">>, <<"U+AC00","U+B2A5">>>>],
       [intent |-> "template", tokens |-> <<<<"t","e","m","p","l","a","t","e">>, <<"U+D15C","U+D50C","U+B9BF">>, <<"U+C591","U+C2DD">>>>],
       [intent |-> "export_pdf", tokens |-> <<<<"e","x","p","o","r","t"," ","p","d","f">>, <<"p","d","f">>, <<"U+B0B4","U+BCF4","U+B0B4","U+AE30">>>>],
       [intent |-> "save", tokens |-> <<<<"s","a","v","e">>, <<"U+C800","U+C7A5">>>>],
       [intent |-> "search", tokens |-> <<<<"f","i","n","d">>, <<"s","e","a","r","c","h">>, <<"U+CC3E","U+AE30">>, <<"U+AC80","U+C0C9">>>>],
       [intent |-> "insert_text", tokens |-> <<<<"i","n","s","e","r","t">>, <<"w","r","i","t","e">>, <<"U+C791","U+C131">>, <<"U+CD94","U+AC00">>, <<"U+C785","U+B825">>>>],
       [intent |-> "create", tokens |-> <<<<"c","r","e","a","t","e">>, <<"n","e","w">>, <<"U+BB38","U+C11C"," ","U+C0DD","U+C131">>, <<"U+C0C8"," ","U+BB38","U+C11C">>, <<"U+B9CC","U+B4E4">>>>] >>

AnyTokenIn(lowered, tokens) == \E i \in 1..Len(tokens) : Contains(lowered, tokens[i])

\* The intent of the last check that hits.
RECURSIVE LastIntent(_, _)
LastIntent(lowered, checks) ==
    IF checks = <<>> THEN "unknown"
    ELSE IF AnyTokenIn(lowered, checks[Len(checks)].tokens) THEN checks[Len(checks)].intent
    ELSE LastIntent(lowered, SubSeq(checks, 1, Len(checks) - 1))

\* The first `return` reached: the intent of the first check that hits, else "unknown".
RECURSIVE FirstIntent(_, _)
FirstIntent(lowered, checks) ==
    IF checks = <<>> THEN "unknown"
    ELSE IF AnyTokenIn(lowered, Head(checks).tokens) THEN Head(checks).intent
    ELSE FirstIntent(lowered, Tail(checks))

_parse_intent(message) == FirstIntent(Lower(message), IntentChecks)

\* name.startswith(prefix)
StartsWith(name, prefix) ==
    Len(name) >= Len(prefix) /\ SubSeq(name, 1, Len(prefix)) = prefix

\* _detect_case without the `bool(tool_names) and` of has_xml_only: an empty registry counts
\* as one whose every tool name is an analysis name.
DetectCaseVacuousXml(message, tool_names) ==
    LET lowered == Lower(message)
        has_windows == \E name \in tool_names : StartsWith(name, <<"h","w","p","_","w","i","n","d","o","w","s","_">>)
        has_templates == <<"h","w","p","_","l","i","s","t","_","t","e","m","p","l","a","t","e","s">> \in tool_names
        has_hwpx == <<"h","w","p","_","c","r","e","a","t","e","_","h","w","p","x">> \in tool_names
        has_doc_ops == \E name \in {<<"h","w","p","_","c","r","e","a","t","e">>, <<"h","w","p","_","i","n","s","e","r","t","_","t","e","x","t">>, <<"h","w","p","_","s","a","v","e">>} :
                           name \in tool_names
        has_xml_only == \A name \in tool_names :
                            \/ Contains(name, <<"x","m","l">>)
                            \/ Contains(name, <<"x","p","a","t","h">>)
                            \/ Contains(name, <<"s","m","a","r","t","_","p","a","t","c","h">>)
    IN  IF AnyTokenIn(lowered, <<<<"t","e","m","p","l","a","t","e">>, <<"U+D15C","U+D50C","U+B9BF">>, <<"U+C591","U+C2DD">>>>) /\ has_templates
        THEN "template_workflow"
        ELSE IF has_windows THEN "windows_com_full"
        ELSE IF has_xml_only THEN "query_analyze_only"
        ELSE IF has_hwpx THEN "cross_platform_hwpx"
        ELSE IF has_doc_ops THEN "no_document_context"
        ELSE "degraded_recovery"


_detect_case(message, tool_names) ==
    LET lowered == Lower(message)
        has_windows == \E name \in tool_names : StartsWith(name, <<"h","w","p","_","w","i","n","d","o","w","s","_">>)
        has_templates == <<"h","w","p","_","l","i","s","t","_","t","e","m","p","l","a","t","e","s">> \in tool_names
        has_hwpx == <<"h","w","p","_","c","r","e","a","t","e","_","h","w","p","x">> \in tool_names
        has_doc_ops == \E name \in {<<"h","w","p","_","c","r","e","a","t","e">>, <<"h","w","p","_","i","n","s","e","r","t","_","t","e","x","t">>, <<"h","w","p","_","s","a","v","e">>} :
                           name \in tool_names
        has_xml_only == /\ tool_names # {}
                        /\ \A name \in tool_names :
                               \/ Contains(name, <<"x","m","l">>)
                               \/ Contains(name, <<"x","p","a","t","h">>)
                               \/ Contains(name, <<"s","m","a","r","t","_","p","a","t","c","h">>)
    IN  IF AnyTokenIn(lowered, <<<<"t","e","m","p","l","a","t","e">>, <<"U+D15C","U+D50C","U+B9BF">>, <<"U+C591","U+C2DD">>>>) /\ has_templates
        THEN "template_workflow"
        ELSE IF has_windows THEN "windows_com_full"
        ELSE IF has_xml_only THEN "query_analyze_only"
        ELSE IF has_hwpx THEN "cross_platform_hwpx"
        ELSE IF has_doc_ops THEN "no_document_context"
        ELSE "degraded_recovery"

\* AgentState and the dicts of the agent are functions from the keys they hold; {} is <<>>.
\* A reply or an error is the tuple of the parts its string is formatted from, the Korean
\* text of a reply given in English; a Hangul character is written as its code point.
EmptyDict == <<>>

\* The state run hands to the graph.
InitialState(message) == [message |-> Strip(message), session_id |-> <<>>]

\* The graph writes the keys a node returns over the state.
Update(state, update) == update @@ state

\* The graph with an edge from classify to the subagent nodes, route left out.
GraphWithoutRoute(node, state) ==
    CASE node = "START" -> "prepare"
      [] node = "prepare" -> "classify"
      [] node = "classify" -> Get(state, "subagent", "recovery_agent")
      [] node \in {"status_agent", "template_agent", "document_agent", "export_agent",
                   "search_agent", "recovery_agent"} -> "finalize"
      [] node = "finalize" -> "END"

\* The edges _build_graph adds: the node that runs after node, by the state node left.
_build_graph(node, state) ==
    CASE node = "START" -> "prepare"
      [] node = "prepare" -> "classify"
      [] node = "classify" -> "route"
      [] node = "route" -> Get(state, "subagent", "recovery_agent")
      [] node \in {"status_agent", "template_agent", "document_agent", "export_agent",
                   "search_agent", "recovery_agent"} -> "finalize"
      [] node = "finalize" -> "END"

\* {record.name: record.tool_id for record in registry}: the last record of a name wins.
ToolsByName(reg) ==
    [name \in {reg[i].name : i \in 1..Len(reg)} |->
        reg[CHOOSE i \in 1..Len(reg) :
                /\ reg[i].name = name
                /\ \A j \in (i + 1)..Len(reg) : reg[j].name # name].tool_id]

_node_classify(state) ==
    [case |-> _detect_case(Get(state, "message", <<>>),
                           DOMAIN Get(state, "tools_by_name", EmptyDict)),
     intent |-> _parse_intent(Get(state, "message", <<>>))]

_node_route(state) ==
    LET intent == Get(state, "intent", "unknown")
        case == Get(state, "case", "degraded_recovery")
    IN  IF intent \in {"status", "capabilities"} THEN [subagent |-> "status_agent"]
        ELSE IF intent = "template" \/ case = "template_workflow"
        THEN [subagent |-> "template_agent"]
        ELSE IF intent = "export_pdf" THEN [subagent |-> "export_agent"]
        ELSE IF intent = "search" THEN [subagent |-> "search_agent"]
        ELSE IF intent \in {"create", "insert_text", "save"} THEN [subagent |-> "document_agent"]
        ELSE [subagent |-> "recovery_agent"]

\* What a subagent node does: it returns an update, or it awaits
\* _call_first_available(state, candidates, candidate_args).
Returns(update) == [update |-> Some(update), candidates |-> <<>>, candidate_args |-> EmptyDict]

CallsFirstOf(candidates, candidate_args) ==
    [update |-> None, candidates |-> candidates, candidate_args |-> candidate_args]

\* bool(text) for text: str | None
TruthyText(text) == text # None /\ text[1] # <<>>

\* str(Path.cwd() / name)
CwdPath(name) == <<"cwd", "/", name>>

_status_agent(state) ==
    IF Get(state, "intent", "status") = "capabilities"
    THEN CallsFirstOf(<<<<"h","w","p","_","c","a","p","a","b","i","l","i","t","i","e","s">>, <<"h","w","p","_","g","e","t","_","c","a","p","a","b","i","l","i","t","i","e","s">>, <<"h","w","p","_","p","l","a","t","f","o","r","m","_","i","n","f","o">>>>, EmptyDict)
    ELSE CallsFirstOf(<<<<"h","w","p","_","p","i","n","g">>, <<"h","w","p","_","p","l","a","t","f","o","r","m","_","i","n","f","o">>, <<"h","w","p","_","c","a","p","a","b","i","l","i","t","i","e","s">>>>, EmptyDict)

_template_agent(state) ==
    CallsFirstOf(<<<<"h","w","p","_","l","i","s","t","_","t","e","m","p","l","a","t","e","s">>, <<"h","w","p","_","s","e","a","r","c","h","_","t","e","m","p","l","a","t","e">>>>, EmptyDict)

_document_agent(state) ==
    LET intent == Get(state, "intent", "unknown")
        message == Get(state, "message", <<>>)
        text_payload == _extract_quoted_text(message)
    IN  IF intent = "create"
        THEN (IF TruthyText(text_payload)
              THEN CallsFirstOf(<<<<"h","w","p","_","c","r","e","a","t","e","_","h","w","p","x">>>>,
                                [text |-> text_payload[1], filename |-> "agent_output.hwpx"])
              ELSE CallsFirstOf(<<<<"h","w","p","_","c","r","e","a","t","e">>>>, EmptyDict))
        ELSE IF intent = "save"
        THEN CallsFirstOf(<<<<"h","w","p","_","s","a","v","e">>, <<"h","w","p","_","s","a","v","e","_","d","o","c","u","m","e","n","t">>>>, [path |-> CwdPath("agent_output.hwpx")])
        ELSE CallsFirstOf(<<<<"h","w","p","_","i","n","s","e","r","t","_","t","e","x","t">>, <<"h","w","p","_","w","i","n","d","o","w","s","_","i","n","s","e","r","t","_","t","e","x","t">>>>,
                          [text |-> IF TruthyText(text_payload) THEN text_payload[1]
                                    ELSE message])

_export_agent(state) ==
    CallsFirstOf(<<<<"h","w","p","_","e","x","p","o","r","t","_","p","d","f">>, <<"h","w","p","_","s","a","v","e","_","a","s">>>>,
                 [output_path |-> CwdPath("agent_output.pdf"), format |-> "pdf",
                  path |-> CwdPath("agent_output.pdf")])

\* The characters of the model's messages that [\w\uAC00-\uD7A3] does not match.
NonWordChars == {" ", "\"", "'", "?", "!", "-", ":"}

\* re.findall(r"[\w\uAC00-\uD7A3]+", s): the maximal runs of word characters, cur the run in progress.
RECURSIVE FindWords(_, _)
FindWords(s, cur) ==
    IF s = <<>> THEN (IF cur = <<>> THEN <<>> ELSE <<cur>>)
    ELSE IF Head(s) \notin NonWordChars THEN FindWords(Tail(s), Append(cur, Head(s)))
    ELSE (IF cur = <<>> THEN <<>> ELSE <<cur>>) \o FindWords(Tail(s), <<>>)

\* The keyword of _search_agent: the quoted text, else the last token longer than one
\* character, else "".
SearchKeyword(message) ==
    LET tokens == SelectSeq(FindWords(message, <<>>), LAMBDA token : Len(token) > 1)
    IN  IF TruthyText(_extract_quoted_text(message)) THEN _extract_quoted_text(message)[1]
        ELSE IF tokens # <<>> THEN tokens[Len(tokens)]
        ELSE <<>>

_search_agent(state) ==
    LET keyword == SearchKeyword(Get(state, "message", <<>>))
    IN  IF keyword = <<>>
        THEN Returns([reply |-> <<"reply: put the search keyword in quotes">>,
                      error |-> <<"missing_search_keyword">>])
        ELSE CallsFirstOf(<<<<"h","w","p","_","f","i","n","d">>, <<"h","w","p","_","s","e","a","r","c","h","_","t","e","x","t">>>>, [text |-> keyword, query |-> keyword])

\* sorted(names)[:10]
RECURSIVE SortedNames(_)
SortedNames(names) ==
    IF names = {} THEN <<>>
    ELSE LET first == CHOOSE n \in names : \A m \in names \ {n} : StrLess(n, m)
         IN  <<first>> \o SortedNames(names \ {first})

_recovery_agent(state) ==
    LET tool_names == SortedNames(DOMAIN Get(state, "tools_by_name", EmptyDict))
    IN  Returns([reply |-> <<"reply: no case runs the request; tools available: ",
                             IF tool_names # <<>>
                             THEN SubSeq(tool_names, 1, IF Len(tool_names) < 10 THEN Len(tool_names) ELSE 10)
                             ELSE <<"none">> >>,
                  error |-> <<"no_matching_subagent">>])

\* The node function the graph runs for a subagent node.
Subagent(node, state) ==
    CASE node = "status_agent" -> _status_agent(state)
      [] node = "template_agent" -> _template_agent(state)
      [] node = "document_agent" -> _document_agent(state)
      [] node = "export_agent" -> _export_agent(state)
      [] node = "search_agent" -> _search_agent(state)
      [] node = "recovery_agent" -> _recovery_agent(state)

\* dict restricted to the keys it holds among keys
Only(dict, keys) == [key \in keys \cap DOMAIN dict |-> dict[key]]

\* Every value of the model's candidate_args is a str.
_normalize_arguments(name, args) ==
    IF name = <<"h","w","p","_","s","a","v","e">> THEN Only(args, {"path"})
    ELSE IF name = <<"h","w","p","_","e","x","p","o","r","t","_","p","d","f">> THEN Only(args, {"output_path"})
    ELSE IF name = <<"h","w","p","_","s","a","v","e","_","a","s">>
    THEN (IF "path" \in DOMAIN args
          THEN [path |-> args["path"], format |-> Get(args, "format", "pdf")]
          ELSE EmptyDict)
    ELSE IF name \in {<<"h","w","p","_","i","n","s","e","r","t","_","t","e","x","t">>, <<"h","w","p","_","w","i","n","d","o","w","s","_","i","n","s","e","r","t","_","t","e","x","t">>, <<"h","w","p","_","c","r","e","a","t","e","_","h","w","p","x">>}
    THEN (IF "text" \in DOMAIN args THEN Only(args, {"text", "filename"}) ELSE EmptyDict)
    ELSE IF name = <<"h","w","p","_","f","i","n","d">> THEN Only(args, {"text"})
    ELSE IF name = <<"h","w","p","_","s","e","a","r","c","h","_","t","e","x","t">> THEN Only(args, {"query"})
    ELSE args

\* The loop of _call_first_available picks the last candidate the registry holds.
RECURSIVE LastAvailable(_, _)
LastAvailable(tools_by_name, candidates) ==
    IF candidates = <<>> THEN None
    ELSE IF candidates[Len(candidates)] \in DOMAIN tools_by_name
    THEN Some(candidates[Len(candidates)])
    ELSE LastAvailable(tools_by_name, SubSeq(candidates, 1, Len(candidates) - 1))

\* The first candidate with a direct callable among the available ones, else the first
\* available candidate.
FirstCallable(tools_by_name, candidates) ==
    LET callable == SelectSeq(candidates,
                              LAMBDA name : name \in DOMAIN tools_by_name
                                            /\ name \in _tool_callables)
        available == SelectSeq(candidates, LAMBDA name : name \in DOMAIN tools_by_name)
    IN  IF callable # <<>> THEN Some(Head(callable))
        ELSE IF available # <<>> THEN Some(Head(available))
        ELSE None


\* The loop of _call_first_available: the first candidate with a tool_id in tools_by_name
\* (a tool_id is never empty), None when the loop falls through.
RECURSIVE FirstAvailable(_, _)
FirstAvailable(tools_by_name, candidates) ==
    IF candidates = <<>> THEN None
    ELSE IF Head(candidates) \in DOMAIN tools_by_name THEN Some(Head(candidates))
    ELSE FirstAvailable(tools_by_name, Tail(candidates))

\* The tool _call_first_available selects with its tool_id and normalized arguments.
Selected(tools_by_name, name, candidate_args) ==
    [name |-> name, tool_id |-> tools_by_name[name],
     arguments |-> _normalize_arguments(name, candidate_args)]

\* The update of _call_first_available for no available candidate, without its reply.
NoAvailableToolSilent == [error |-> <<"no_available_tool">>]


NoAvailableTool ==
    [error |-> <<"no_available_tool">>,
     reply |-> <<"reply: no tool of this case can run">>]

ToolState(selected, tool_result) ==
    [selected_tool_name |-> selected.name, selected_tool_id |-> selected.tool_id,
     arguments |-> selected.arguments, tool_result |-> tool_result]

\* `except Exception as exc` around the direct callable
ToolCallFailed(selected, exc) ==
    [error |-> <<"tool_call_failed: ", exc>>] @@
    ToolState(selected, [kind |-> "value",
                         value |-> {<<"success", FALSE>>,
                                    <<"message", <<"tool_call_failed: ", exc>> >>}])

\* result.get("message", "tool_call_failed") of a JSON object
MessageOf(object) ==
    IF \E p \in object : p[1] = "message" THEN (CHOOSE p \in object : p[1] = "message")[2]
    ELSE "tool_call_failed"

\* With use_gateway_result, result is the dict tool_call returned; else it is what the
\* direct callable returned, a dict when its kind is "value".
_build_tool_state(selected, result, use_gateway_result) ==
    IF use_gateway_result
    THEN (IF result.success = FALSE
          THEN [error |-> result.message] @@ ToolState(selected, result)
          ELSE IF "result" \notin DOMAIN result
          THEN [error |-> <<"invalid_gateway_response">>] @@ ToolState(selected, result)
          ELSE ToolState(selected, result.result))
    ELSE IF result.kind = "value" /\ <<"success", FALSE>> \in result.value
    THEN [error |-> <<MessageOf(result.value)>>] @@ ToolState(selected, result)
    ELSE ToolState(selected, result)

\* Every reply of the model is truthy.
_node_finalize(state) ==
    IF "reply" \in DOMAIN state THEN state
    ELSE IF "selected_tool_name" \notin DOMAIN state
    THEN [reply |-> <<"reply: no suitable tool was found">>, error |-> <<"tool_not_selected">>]
    ELSE [reply |-> <<"[", state["selected_tool_name"], "] done\n", state["tool_result"]>>]

\* The dict run returns for final_state.
Response(final_state) ==
    [success |-> "error" \notin DOMAIN final_state,
     case |-> Get(final_state, "case", "degraded_recovery"),
     intent |-> Get(final_state, "intent", "unknown"),
     subagent |-> Get(final_state, "subagent", "recovery_agent"),
     selected_tool |-> IF "selected_tool_name" \in DOMAIN final_state
                       THEN Some(final_state["selected_tool_name"]) ELSE None,
     arguments |-> Get(final_state, "arguments", EmptyDict),
     reply |-> Get(final_state, "reply", <<"reply: the request could not be handled">>),
     result |-> IF "tool_result" \in DOMAIN final_state
                THEN Some(final_state["tool_result"]) ELSE None,
     error |-> IF "error" \in DOMAIN final_state THEN Some(final_state["error"]) ELSE None]

\* --------------------------------------------------- the agent's requests

\* A descriptor with default schemas.
HwpTool(name, description) ==
    [name |-> name, description |-> description, inputSchema |-> None, outputSchema |-> None]

\* A dict backend.call_tool or a direct callable returns for a failed tool.
RawFailure == [kind |-> "value", value |-> {<<"success", FALSE>>, <<"message", "boom">>}]

\* One caller of ToolOnlyAgent.run, the messages it sends, the descriptors the backend lists,
\* the names backend_server._tool_manager._tools holds with a callable fn, what a tool
\* returns and the exceptions a direct callable raises.
AgentWorkload ==
    [ callers |-> {"t1"},
      messages |-> {<<"p","i","n","g">>, <<" ","S","a","v","e"," ","P","D","F">>, <<"s","a","v","e">>, <<"f","i","n","d"," ","'","a","b","'">>, <<"n","e","w"," ","s","t","a","t","u","s">>, <<"h","e","l","l","o">>,
                    <<"U+C800","U+C7A5"," ","U+AC80","U+C0C9">>, <<"w","r","i","t","e"," ","\"","h","i","\""," ","t","e","m","p","l","a","t","e">>},
      descriptors |-> {HwpTool(<<"h","w","p","_","p","i","n","g">>, <<"p","i","n","g">>), HwpTool(<<"h","w","p","_","p","l","a","t","f","o","r","m","_","i","n","f","o">>, <<"i","n","f","o">>),
                       HwpTool(<<"h","w","p","_","s","a","v","e">>, <<"s","a","v","e">>), HwpTool(<<"h","w","p","_","f","i","n","d">>, <<"f","i","n","d">>)},
      tool_managers |-> {{}, {<<"h","w","p","_","p","i","n","g">>, <<"h","w","p","_","s","a","v","e">>}, {<<"h","w","p","_","p","l","a","t","f","o","r","m","_","i","n","f","o">>, <<"h","w","p","_","f","i","n","d">>}},
      raw_results |-> {RawDict, RawFailure, RawTextList},
      exceptions |-> {"boom"} ]

Subagents ==
    {"status_agent", "template_agent", "document_agent", "export_agent", "search_agent",
     "recovery_agent"}

\* One invocation of a tool, through its direct callable or through backend.call_tool, and
\* how it ended.
Invoked(via, selected, outcome) ==
    [via |-> via, name |-> selected.name, arguments |-> selected.arguments,
     outcome |-> outcome]

\* A caller starts run: the graph is invoked with the initial state and is about to run the
\* node START leads to.  trace lists the nodes that have run, calls the tools invoked.
AgentRun(t, W) ==
    /\ t \in W.callers
    /\ task[t].pc = "idle"
    /\ CanRun(t)
    /\ \E message \in W.messages :
           task' = [task EXCEPT ![t] =
                       [pc |-> "node", op |-> "run",
                        locals |-> [message |-> message, state |-> InitialState(message),
                                    node |-> _build_graph("START", InitialState(message)),
                                    trace |-> <<>>, calls |-> <<>>,
                                    selected |-> None, request |-> None]]]
    /\ UNCHANGED <<registry, _router, _tool_callables>>

\* The node the graph is running returns update: the graph merges it into the state and
\* follows the node's edge.
NodeDone(t, update, calls) ==
    LET locals == task[t].locals
        state == Update(locals.state, update)
    IN  task' = [task EXCEPT ![t] =
                    [pc |-> "node", op |-> "run",
                     locals |-> [locals EXCEPT !.state = state,
                                               !.node = _build_graph(locals.node, state),
                                               !.trace = Append(locals.trace, locals.node),
                                               !.calls = calls]]]

\* run is about to hand result to its caller, or to raise.
RunDone(t, result, calls) ==
    task' = [task EXCEPT ![t] =
                [pc |-> "return", op |-> "run",
                 locals |-> [args |-> task[t].locals.message, result |-> result,
                             calls |-> calls, trace |-> task[t].locals.trace,
                             state |-> task[t].locals.state]]]

\* _node_prepare up to the `await server.list_tools()` of refresh_registry
NodePrepare(t) ==
    /\ task[t].pc = "node"
    /\ task[t].locals.node = "prepare"
    /\ CanRun(t)
    /\ task' = [task EXCEPT ![t].pc = "list_tools"]
    /\ UNCHANGED <<registry, _router, _tool_callables>>

\* _node_prepare once refresh_registry has returned
PrepareDone(t, W) ==
    /\ task[t].pc = "body"
    /\ task[t].op = "run"
    /\ task[t].locals.node = "prepare"
    /\ \E callables \in W.tool_managers : _tool_callables' = callables
    /\ NodeDone(t, [tools_by_name |-> ToolsByName(registry)], task[t].locals.calls)
    /\ UNCHANGED <<registry, _router>>

NodeClassify(t) ==
    /\ task[t].pc = "node"
    /\ task[t].locals.node = "classify"
    /\ CanRun(t)
    /\ NodeDone(t, _node_classify(task[t].locals.state), task[t].locals.calls)
    /\ UNCHANGED <<registry, _router, _tool_callables>>

NodeRoute(t) ==
    /\ task[t].pc = "node"
    /\ task[t].locals.node = "route"
    /\ CanRun(t)
    /\ NodeDone(t, _node_route(task[t].locals.state), task[t].locals.calls)
    /\ UNCHANGED <<registry, _router, _tool_callables>>

\* _call_first_available from the loop on: no candidate, or the selected tool is called
\* through its direct callable, or gateway.tool_call starts with _ensure_registry.
CallFirstAvailable(t, tools_by_name, candidates, candidate_args, name) ==
    IF name = None
    THEN NodeDone(t, NoAvailableTool, task[t].locals.calls)
    ELSE task' = [task EXCEPT
                    ![t].pc = IF name[1] \in _tool_callables THEN "direct_call"
                              ELSE IF NeedsRefresh(registry) THEN "list_tools"
                              ELSE "body",
                    ![t].locals.selected =
                        Some(Selected(tools_by_name, name[1], candidate_args))]

\* A subagent node up to its return or to the first await of _call_first_available.
NodeSubagentStep(t, state, plan) ==
    IF plan.update # None
    THEN NodeDone(t, plan.update[1], task[t].locals.calls)
    ELSE CallFirstAvailable(t, Get(state, "tools_by_name", EmptyDict), plan.candidates,
                            plan.candidate_args,
                            FirstAvailable(Get(state, "tools_by_name", EmptyDict),
                                           plan.candidates))

NodeSubagent(t) ==
    /\ task[t].pc = "node"
    /\ task[t].locals.node \in Subagents
    /\ CanRun(t)
    /\ NodeSubagentStep(t, task[t].locals.state,
                        Subagent(task[t].locals.node, task[t].locals.state))
    /\ UNCHANGED <<registry, _router, _tool_callables>>

\* gateway.tool_call after _ensure_registry: it returns the not-found envelope, or it is
\* about to await backend.call_tool.
GatewayToolCall(t) ==
    /\ task[t].pc = "body"
    /\ task[t].op = "run"
    /\ task[t].locals.node \in Subagents
    /\ LET selected == task[t].locals.selected[1]
           request == ToolCallRequest(registry, selected.tool_id, selected.arguments)
       IN  IF request = None
           THEN NodeDone(t, _build_tool_state(selected, NotFound(selected.tool_id), TRUE),
                         task[t].locals.calls)
           ELSE task' = [task EXCEPT ![t].pc = "calling", ![t].locals.request = request]
    /\ UNCHANGED <<registry, _router, _tool_callables>>

\* backend.call_tool returns raw to gateway.tool_call, whose envelope _build_tool_state
\* turns into the subagent's update.
AgentCallToolReturn(t, W) ==
    /\ task[t].pc = "call_tool"
    /\ task[t].op = "run"
    /\ CanRun(t)
    /\ \E raw \in W.raw_results :
           LET selected == task[t].locals.selected[1]
               called == CallEnvelope("tool_call",
                                      [args |-> selected, request |-> task[t].locals.request[1]],
                                      raw)
           IN  NodeDone(t, _build_tool_state(selected, called, TRUE),
                        Append(task[t].locals.calls,
                               Invoked("backend", selected, Returned(raw))))
    /\ UNCHANGED <<registry, _router, _tool_callables>>

\* backend.call_tool raises: nothing in tool_call, _call_first_available, the graph or run
\* catches it.
AgentCallToolFail(t) ==
    /\ task[t].pc = "call_tool"
    /\ task[t].op = "run"
    /\ CanRun(t)
    /\ RunDone(t, Raised("call_tool"),
               Append(task[t].locals.calls,
                      Invoked("backend", task[t].locals.selected[1], Raised("backend"))))
    /\ UNCHANGED <<registry, _router, _tool_callables>>

\* The direct callable returns result.
DirectReturn(t, W) ==
    /\ task[t].pc = "direct_call"
    /\ CanRun(t)
    /\ \E result \in W.raw_results :
           NodeDone(t, _build_tool_state(task[t].locals.selected[1], result, FALSE),
                    Append(task[t].locals.calls,
                           Invoked("direct", task[t].locals.selected[1], Returned(result))))
    /\ UNCHANGED <<registry, _router, _tool_callables>>

\* The direct callable raises exc and _call_first_available goes on to gateway.tool_call
\* with the same tool.
DirectFailFallsBack(t, W) ==
    /\ task[t].pc = "direct_call"
    /\ CanRun(t)
    /\ \E exc \in W.exceptions :
           task' = [task EXCEPT
                      ![t].pc = IF NeedsRefresh(registry) THEN "list_tools" ELSE "body",
                      ![t].locals.calls =
                          Append(task[t].locals.calls,
                                 Invoked("direct", task[t].locals.selected[1], Raised(exc)))]
    /\ UNCHANGED <<registry, _router, _tool_callables>>


\* The direct callable raises exc, which _call_first_available catches.
DirectFail(t, W) ==
    /\ task[t].pc = "direct_call"
    /\ CanRun(t)
    /\ \E exc \in W.exceptions :
           NodeDone(t, ToolCallFailed(task[t].locals.selected[1], exc),
                    Append(task[t].locals.calls,
                           Invoked("direct", task[t].locals.selected[1], Raised(exc))))
    /\ UNCHANGED <<registry, _router, _tool_callables>>

NodeFinalize(t) ==
    /\ task[t].pc = "node"
    /\ task[t].locals.node = "finalize"
    /\ CanRun(t)
    /\ NodeDone(t, _node_finalize(task[t].locals.state), task[t].locals.calls)
    /\ UNCHANGED <<registry, _router, _tool_callables>>

\* The graph reached END: run builds its response from the final state.
RunReturn(t) ==
    /\ task[t].pc = "node"
    /\ task[t].locals.node = "END"
    /\ CanRun(t)
    /\ RunDone(t, Returned(Response(task[t].locals.state)), task[t].locals.calls)
    /\ UNCHANGED <<registry, _router, _tool_callables>>

\* The steps of a request that has started.
AgentStep(t, W) ==
    \/ NodePrepare(t)
    \/ ListToolsReturn(t, W)
    \/ AssignRouter(t)
    \/ ListToolsFail(t)
    \/ PrepareDone(t, W)
    \/ NodeClassify(t)
    \/ NodeRoute(t)
    \/ NodeSubagent(t)
    \/ GatewayToolCall(t)
    \/ BackendCall(t)
    \/ AgentCallToolReturn(t, W)
    \/ AgentCallToolFail(t)
    \/ DirectReturn(t, W)
    \/ DirectFail(t, W)
    \/ NodeFinalize(t)
    \/ RunReturn(t)
    \/ Return(t)

NextAgentFor(W) == \E t \in Tasks : AgentRun(t, W) \/ AgentStep(t, W)

NextAgent == NextAgentFor(AgentWorkload)

SpecAgent == Init /\ [][NextAgent]_vars

\* The event loop can resume the request of task t: it is not suspended while another
\* coroutine runs.  This is when AgentStep(t, AgentWorkload) is enabled.
Resumable(t) ==
    /\ task[t].op = "run"
    /\ task[t].pc \notin {"idle", "return"}
    /\ (task[t].pc \in Running \/ CanRun(t))

\* Weak fairness of the steps of every request, WF_vars(AgentStep(t, AgentWorkload)), with
\* the enabling condition written out: the event loop resumes every coroutine that stays
\* resumable, and the backend and the direct callables answer every call, with a value or
\* with an exception.
SpecAgentFair ==
    SpecAgent /\ \A t \in Tasks : []<>(~Resumable(t)) \/ []<><<task'[t] # task[t]>>_vars

\* --------------------------------------------- the agent's text functions

\* A client of _parse_intent and the words its messages are made of: every keyword of
\* _parse_intent, upper-case spellings, and words without a keyword.
IntentWorkload ==
    [ callers |-> {"t1"},
      words |-> {<<"s","t","a","t","u","s">>,
                 <<"p","i","n","g">>,
                 <<"U+C0C1","U+D0DC">>,
                 <<"U+D5EC","U+C2A4">>,
                 <<"c","a","p","a","b","i","l","i","t","y">>,
                 <<"c","a","p","a","b","i","l","i","t","i","e","s">>,
                 <<"U+C9C0","U+C6D0">>,
                 <<"U+AC00","U+B2A5">>,
                 <<"t","e","m","p","l","a","t","e">>,
                 <<"U+D15C","U+D50C","U+B9BF">>,
                 <<"U+C591","U+C2DD">>,
                 <<"e","x","p","o","r","t"," ","p","d","f">>,
                 <<"p","d","f">>,
                 <<"U+B0B4","U+BCF4","U+B0B4","U+AE30">>,
                 <<"s","a","v","e">>,
                 <<"U+C800","U+C7A5">>,
                 <<"f","i","n","d">>,
                 <<"s","e","a","r","c","h">>,
                 <<"U+CC3E","U+AE30">>,
                 <<"U+AC80","U+C0C9">>,
                 <<"i","n","s","e","r","t">>,
                 <<"w","r","i","t","e">>,
                 <<"U+C791","U+C131">>,
                 <<"U+CD94","U+AC00">>,
                 <<"U+C785","U+B825">>,
                 <<"c","r","e","a","t","e">>,
                 <<"n","e","w">>,
                 <<"U+BB38","U+C11C"," ","U+C0DD","U+C131">>,
                 <<"U+C0C8"," ","U+BB38","U+C11C">>,
                 <<"U+B9CC","U+B4E4">>,
                 <<"h","e","l","l","o">>,
                 <<"S","A","V","E">>,
                 <<"P","d","f">>,
                 <<"T","e","m","p","l","a","t","e">>,
                 <<"d","o","c">>} ]

\* _parse_intent on a message of up to two words
LibraryParseIntent(t, W) ==
    /\ t \in W.callers
    /\ task[t].pc = "idle"
    /\ \E first \in W.words, second \in W.words \cup {<<>>} :
           LET message == IF second = <<>> THEN first ELSE first \o <<" ">> \o second
           IN  Called(t, "_parse_intent",
                      [message |-> message, intent |-> _parse_intent(message)])
    /\ UNCHANGED <<registry, _router, _tool_callables>>

NextIntent ==
    \E t \in Tasks :
        \/ LibraryParseIntent(t, IntentWorkload)
        \/ LibraryReturn(t)

SpecIntent == Init /\ [][NextIntent]_vars

\* ------------------------------------------------------ claims on the agent

\* Task t is inside ToolOnlyAgent.run.
InRun(t) == task[t].op = "run" /\ task[t].pc \notin {"idle", "return"}

\* The run of task t has ended: it raises, or it hands its response to the caller.
RunEnded(t) == task[t].op = "run" /\ task[t].pc = "return"

\* The run of task t has ended with a response.
Responded(t) == RunEnded(t) /\ task[t].locals.result.kind = "return"

NodeOrders == {<<"prepare", "classify", "route", s, "finalize">> : s \in Subagents}

\* The nodes that ran are the first nodes of order and the node to run is its next one.
Follows(locals, order) ==
    /\ Len(locals.trace) <= Len(order)
    /\ SubSeq(order, 1, Len(locals.trace)) = locals.trace
    /\ IF Len(locals.trace) = Len(order) THEN locals.node = "END"
       ELSE locals.node = order[Len(locals.trace) + 1]

C17_InOrder ==
    \A t \in Tasks : InRun(t) => \E order \in NodeOrders : Follows(task[t].locals, order)

C17_Ended ==
    \A t \in Tasks :
        RunEnded(t) =>
            IF task[t].locals.result.kind = "return"
            THEN /\ task[t].locals.trace \in NodeOrders
                 /\ task[t].locals.result.value = Response(task[t].locals.state)
            ELSE \/ task[t].locals.result = Raised("list_tools")
                 \/ /\ task[t].locals.result = Raised("call_tool")
                    /\ \E order \in NodeOrders : task[t].locals.trace = SubSeq(order, 1, 3)

\* Inside a run the state is written only by the one node that is due, as it ends.
C17_Serial ==
    [][\A t \in Tasks :
          (InRun(t) /\ task'[t].op = "run" /\ task'[t].pc \notin {"idle", "return"}) =>
              IF task'[t].locals.trace = task[t].locals.trace
              THEN task'[t].locals.state = task[t].locals.state
              ELSE task'[t].locals.trace =
                       Append(task[t].locals.trace, task[t].locals.node)]_vars

C17_Terminates == \A t \in Tasks : InRun(t) ~> RunEnded(t)

CalledFirstAvailable(t) ==
    /\ RunEnded(t)
    /\ "trace" \in DOMAIN task[t].locals
    /\ Len(task[t].locals.trace) >= 3
    /\ Subagent(task[t].locals.state["subagent"], task[t].locals.state).update = None

\* The candidates of the run's subagent, in its priority order.
CandidatesOf(t) ==
    Subagent(task[t].locals.state["subagent"], task[t].locals.state).candidates

RegistryNames == {registry[i].name : i \in 1..Len(registry)}

\* calls is one invocation, of name, through its direct callable exactly when it has one.
InvokedOnce(calls, name) ==
    /\ Len(calls) = 1
    /\ calls[1].name = name
    /\ calls[1].via = IF name \in _tool_callables THEN "direct" ELSE "backend"

C18_Holds(t, candidates) ==
    IF \E i \in 1..Len(candidates) : candidates[i] \in RegistryNames
    THEN \E i \in 1..Len(candidates) :
             /\ candidates[i] \in RegistryNames
             /\ \A j \in 1..(i - 1) : candidates[j] \notin RegistryNames
             /\ InvokedOnce(task[t].locals.calls, candidates[i])
    ELSE /\ task[t].locals.calls = <<>>
         /\ Responded(t)
         /\ task[t].locals.result.value.error = Some(<<"no_available_tool">>)

\* C18: _call_first_available invokes the first of the subagent's candidates, in priority
\* order, whose name is in the registry, and nothing else: through the direct callable when
\* the backend's tool manager has one for that name, with no backend.call_tool, and
\* otherwise through gateway.tool_call with exactly one backend.call_tool; when no candidate
\* is in the registry it invokes no tool and the response carries error no_available_tool.
C18_FirstAvailable ==
    \A t \in Tasks : CalledFirstAvailable(t) => C18_Holds(t, CandidatesOf(t))

\* The first candidate is not in the registry and a later one is, and that one was invoked
\* through its direct callable.
C18_Witness ==
    \E t \in Tasks :
        /\ CalledFirstAvailable(t)
        /\ CandidatesOf(t)[1] \notin RegistryNames
        /\ task[t].locals.calls # <<>>
        /\ task[t].locals.calls[1].via = "direct"

\* The run of task t returned its response after a tool invoked through via returned a dict
\* with success:false.
ToolReturnedFailure(t, via) ==
    /\ Responded(t)
    /\ task[t].locals.calls # <<>>
    /\ task[t].locals.calls[1].via = via
    /\ task[t].locals.calls[1].outcome.kind = "return"
    /\ task[t].locals.calls[1].outcome.value.kind = "value"
    /\ <<"success", FALSE>> \in task[t].locals.calls[1].outcome.value.value

\* C19: when the selected tool returns a dict with success:false, through its direct
\* callable or through the gateway.tool_call fall-through, the response of the run carries a
\* non-null error and success:false.
C19_FailureIsError ==
    \A t \in Tasks :
        (ToolReturnedFailure(t, "direct") \/ ToolReturnedFailure(t, "backend")) =>
            /\ task[t].locals.result.value.error # None
            /\ task[t].locals.result.value.success = FALSE

\* The client of task t has called _parse_intent.
ParseIntentCalled(t) == task[t].pc = "called" /\ task[t].op = "_parse_intent"

\* The order C20 gives the intents.
IntentOrder ==
    <<"status", "capabilities", "template", "export_pdf", "save", "search", "insert_text",
      "create">>

\* A keyword _parse_intent lists for intent k of IntentOrder occurs in lowered.
IntentHit(lowered, k) ==
    \E c \in 1..Len(IntentChecks) :
        /\ IntentChecks[c].intent = IntentOrder[k]
        /\ AnyTokenIn(lowered, IntentChecks[c].tokens)

C20_Holds(lowered, intent) ==
    IF \A k \in 1..Len(IntentOrder) : ~IntentHit(lowered, k) THEN intent = "unknown"
    ELSE \E k \in 1..Len(IntentOrder) :
             /\ intent = IntentOrder[k]
             /\ IntentHit(lowered, k)
             /\ \A h \in 1..(k - 1) : ~IntentHit(lowered, h)

\* C20: _parse_intent returns the first intent, in the order status, capabilities, template,
\* export_pdf, save, search, insert_text, create, one of whose keywords is a substring of the
\* lowercased message, and unknown when no keyword of any intent is; so a message with
\* keywords of several intents gets the earliest of them.
C20_IntentOrder ==
    \A t \in Tasks :
        ParseIntentCalled(t) => C20_Holds(Lower(task[t].locals.message), task[t].locals.intent)

\* An upper-case message with keywords of two intents got the earlier one.
C20_Witness ==
    \E t \in Tasks :
        /\ ParseIntentCalled(t)
        /\ task[t].locals.message # Lower(task[t].locals.message)
        /\ \E k \in 1..Len(IntentOrder) : \E h \in (k + 1)..Len(IntentOrder) :
               /\ IntentHit(Lower(task[t].locals.message), k)
               /\ IntentHit(Lower(task[t].locals.message), h)
               /\ task[t].locals.intent = IntentOrder[k]

\* ------------------------------------------------------------ _detect_case

\* Most tool names in a set _detect_case is given.
MaxNames == 3

\* A client of _detect_case: messages with and without a template word, and the tool names
\* its sets of registry names are made of.
CaseWorkload ==
    [ callers |-> {"t1"},
      messages |-> {<<"h","e","l","l","o">>, <<"s","a","v","e">>, <<"m","y"," ","T","e","m","p","l","a","t","e">>, <<"U+D15C","U+D50C","U+B9BF"," ","s","t","a","t","u","s">>, <<"U+C591","U+C2DD">>, <<"t","e","m","p"," ","l","a","t","e">>},
      names |-> {<<"h","w","p","_","w","i","n","d","o","w","s","_","i","n","s","e","r","t","_","t","e","x","t">>, <<"h","w","p","_","w","i","n","d","o","w","s","x">>, <<"h","w","p","_","l","i","s","t","_","t","e","m","p","l","a","t","e","s">>,
                 <<"h","w","p","_","c","r","e","a","t","e","_","h","w","p","x">>, <<"h","w","p","_","c","r","e","a","t","e">>, <<"h","w","p","_","s","a","v","e">>, <<"h","w","p","_","x","m","l","_","q","u","e","r","y">>,
                 <<"e","v","a","l","_","x","p","a","t","h">>, <<"h","w","p","_","s","m","a","r","t","_","p","a","t","c","h">>, <<"h","w","p","_","p","i","n","g">>} ]

\* _detect_case on a message and a set of at most MaxNames tool names
LibraryDetectCase(t, W) ==
    /\ t \in W.callers
    /\ task[t].pc = "idle"
    /\ \E message \in W.messages :
       \E tool_names \in {names \in SUBSET W.names : Cardinality(names) <= MaxNames} :
           Called(t, "_detect_case",
                  [message |-> message, tool_names |-> tool_names,
                   case |-> _detect_case(message, tool_names)])
    /\ UNCHANGED <<registry, _router, _tool_callables>>

NextCase ==
    \E t \in Tasks :
        \/ LibraryDetectCase(t, CaseWorkload)
        \/ LibraryReturn(t)

SpecCase == Init /\ [][NextCase]_vars

\* The client of task t has called _detect_case.
DetectCaseCalled(t) == task[t].pc = "called" /\ task[t].op = "_detect_case"

\* The order C21 gives the cases.
CaseOrder ==
    <<"template_workflow", "windows_com_full", "query_analyze_only", "cross_platform_hwpx",
      "no_document_context">>

\* Every name of tool_names contains xml, xpath or smart_patch.
AllAnalysisNames(tool_names) ==
    \A name \in tool_names :
        Contains(name, <<"x","m","l">>) \/ Contains(name, <<"x","p","a","t","h">>) \/ Contains(name, <<"s","m","a","r","t","_","p","a","t","c","h">>)

\* Case k of CaseOrder matches, with xml_only the condition of query_analyze_only.
CaseMatches(k, lowered, tool_names, xml_only) ==
    CASE k = 1 -> /\ \/ Contains(lowered, <<"t","e","m","p","l","a","t","e">>)
                     \/ Contains(lowered, <<"U+D15C","U+D50C","U+B9BF">>)
                     \/ Contains(lowered, <<"U+C591","U+C2DD">>)
                  /\ <<"h","w","p","_","l","i","s","t","_","t","e","m","p","l","a","t","e","s">> \in tool_names
      [] k = 2 -> \E name \in tool_names :
                      Len(name) >= 12 /\ SubSeq(name, 1, 12) = <<"h","w","p","_","w","i","n","d","o","w","s","_">>
      [] k = 3 -> xml_only
      [] k = 4 -> <<"h","w","p","_","c","r","e","a","t","e","_","h","w","p","x">> \in tool_names
      [] k = 5 -> \/ <<"h","w","p","_","c","r","e","a","t","e">> \in tool_names
                  \/ <<"h","w","p","_","i","n","s","e","r","t","_","t","e","x","t">> \in tool_names
                  \/ <<"h","w","p","_","s","a","v","e">> \in tool_names

\* case is the first case of CaseOrder that matches, degraded_recovery when none does.
FirstCase(case, lowered, tool_names, xml_only) ==
    IF \A k \in 1..5 : ~CaseMatches(k, lowered, tool_names, xml_only)
    THEN case = "degraded_recovery"
    ELSE \E k \in 1..5 :
             /\ case = CaseOrder[k]
             /\ CaseMatches(k, lowered, tool_names, xml_only)
             /\ \A h \in 1..(k - 1) : ~CaseMatches(h, lowered, tool_names, xml_only)

RouteByIntentOnly(intent, case) ==
    IF intent \in {"status", "capabilities"} THEN "status_agent"
    ELSE IF intent = "template" THEN "template_agent"
    ELSE IF intent = "export_pdf" THEN "export_agent"
    ELSE IF intent = "search" THEN "search_agent"
    ELSE IF intent \in {"create", "insert_text", "save"} THEN "document_agent"
    ELSE "recovery_agent"

_route_subagent(intent, case) ==
    IF intent \in {"status", "capabilities"} THEN "status_agent"
    ELSE IF intent = "template" \/ case = "template_workflow" THEN "template_agent"
    ELSE IF intent = "export_pdf" THEN "export_agent"
    ELSE IF intent = "search" THEN "search_agent"
    ELSE IF intent \in {"create", "insert_text", "save"} THEN "document_agent"
    ELSE "recovery_agent"

_subagent_tool_allowlist(subagent, intent) ==
    IF subagent = "status_agent"
    THEN (IF intent = "capabilities"
          THEN <<<<"h","w","p","_","c","a","p","a","b","i","l","i","t","i","e","s">>, <<"h","w","p","_","g","e","t","_","c","a","p","a","b","i","l","i","t","i","e","s">>, <<"h","w","p","_","p","l","a","t","f","o","r","m","_","i","n","f","o">>>>
          ELSE <<<<"h","w","p","_","p","i","n","g">>, <<"h","w","p","_","p","l","a","t","f","o","r","m","_","i","n","f","o">>, <<"h","w","p","_","c","a","p","a","b","i","l","i","t","i","e","s">>>>)
    ELSE IF subagent = "template_agent"
    THEN <<<<"h","w","p","_","l","i","s","t","_","t","e","m","p","l","a","t","e","s">>, <<"h","w","p","_","s","e","a","r","c","h","_","t","e","m","p","l","a","t","e">>>>
    ELSE IF subagent = "document_agent"
    THEN <<<<"h","w","p","_","c","r","e","a","t","e","_","h","w","p","x">>, <<"h","w","p","_","c","r","e","a","t","e">>, <<"h","w","p","_","i","n","s","e","r","t","_","t","e","x","t">>, <<"h","w","p","_","w","i","n","d","o","w","s","_","i","n","s","e","r","t","_","t","e","x","t">>, <<"h","w","p","_","s","a","v","e">>, <<"h","w","p","_","s","a","v","e","_","d","o","c","u","m","e","n","t">>>>
    ELSE IF subagent = "export_agent"
    THEN <<<<"h","w","p","_","e","x","p","o","r","t","_","p","d","f">>, <<"h","w","p","_","s","a","v","e","_","a","s">>>>
    ELSE IF subagent = "search_agent"
    THEN <<<<"h","w","p","_","f","i","n","d">>, <<"h","w","p","_","s","e","a","r","c","h","_","t","e","x","t">>>>
    ELSE <<>>

\* ------------------------------------------------------------ both routes

\* IntentName and CaseName
IntentNames ==
    {"status", "capabilities", "template", "export_pdf", "search", "create", "insert_text",
     "save", "unknown"}

CaseNames ==
    {"template_workflow", "windows_com_full", "query_analyze_only", "cross_platform_hwpx",
     "no_document_context", "degraded_recovery"}

\* A client of both routes: every intent and case, and messages with and without a quoted
\* text or a search keyword for the subagent node to read.
RouteWorkload ==
    [ callers |-> {"t1"},
      intents |-> IntentNames,
      cases |-> CaseNames,
      messages |-> {<<"h","e","l","l","o">>, <<"w","r","i","t","e"," ","\"","h","i","\"">>, <<"f","i","n","d"," ","'","a","b","'">>, <<"a">>} ]

\* _node_route of the tool-only agent and the subagent node it leads to, next to
\* _route_subagent and _subagent_tool_allowlist of the external-model agent, on one state
LibraryRoute(t, W) ==
    /\ t \in W.callers
    /\ task[t].pc = "idle"
    /\ \E intent \in W.intents, case \in W.cases, message \in W.messages :
           LET state == [message |-> message, intent |-> intent, case |-> case]
               routed == Update(state, _node_route(state))
               subagent == _route_subagent(intent, case)
           IN  Called(t, "_route_subagent",
                      [state |-> routed,
                       plan |-> Subagent(routed.subagent, routed),
                       subagent |-> subagent,
                       allowlist |-> _subagent_tool_allowlist(subagent, intent)])
    /\ UNCHANGED <<registry, _router, _tool_callables>>

NextRoute ==
    \E t \in Tasks :
        \/ LibraryRoute(t, RouteWorkload)
        \/ LibraryReturn(t)

SpecRoute == Init /\ [][NextRoute]_vars

\* The client of task t has called both routes.
RouteCalled(t) == task[t].pc = "called" /\ task[t].op = "_route_subagent"

\* The subagent C22 gives for an intent and a case.
RouteTable(intent, case) ==
    CASE intent \in {"status", "capabilities"} -> "status_agent"
      [] intent = "template" -> "template_agent"
      [] intent = "export_pdf" -> (IF case = "template_workflow" THEN "template_agent"
                                   ELSE "export_agent")
      [] intent = "search" -> (IF case = "template_workflow" THEN "template_agent"
                               ELSE "search_agent")
      [] intent \in {"create", "insert_text", "save"} ->
             (IF case = "template_workflow" THEN "template_agent" ELSE "document_agent")
      [] OTHER -> (IF case = "template_workflow" THEN "template_agent" ELSE "recovery_agent")

\* C22: for every intent and case _route_subagent and ToolOnlyAgent._node_route choose the
\* same subagent, the one of the claim's table, and every candidate tool name the tool-only
\* subagent may try is in the allow-list the external-model agent derives for that subagent.
C22_SameRoute ==
    \A t \in Tasks :
        RouteCalled(t) =>
            LET locals == task[t].locals
            IN  /\ locals.subagent = locals.state.subagent
                /\ locals.subagent = RouteTable(locals.state.intent, locals.state.case)
                /\ \A i \in DOMAIN locals.plan.candidates :
                       \E j \in DOMAIN locals.allowlist :
                           locals.allowlist[j] = locals.plan.candidates[i]

\* Both routes chose template_agent for a save request because of the case, and the
\* subagent's candidates are tools of the allow-list.
C22_Witness ==
    \E t \in Tasks :
        /\ RouteCalled(t)
        /\ task[t].locals.state.intent = "save"
        /\ task[t].locals.state.case = "template_workflow"
        /\ task[t].locals.subagent = "template_agent"
        /\ task[t].locals.plan.candidates # <<>>

\* ------------------------------------------------------------ classify and route

\* A client of the classify and route nodes: the messages of IntentWorkload against
\* registries with and without hwp_list_templates.
ClassifyWorkload ==
    [ callers |-> {"t1"},
      words |-> IntentWorkload.words,
      tool_names |-> {{}, {<<"h","w","p","_","l","i","s","t","_","t","e","m","p","l","a","t","e","s">>}, {<<"h","w","p","_","l","i","s","t","_","t","e","m","p","l","a","t","e","s">>, <<"h","w","p","_","s","a","v","e">>},
                      {<<"h","w","p","_","s","a","v","e">>, <<"h","w","p","_","e","x","p","o","r","t","_","p","d","f">>}} ]

\* _node_classify, then _node_route, on the state of a message of up to two words
LibraryClassifyRoute(t, W) ==
    /\ t \in W.callers
    /\ task[t].pc = "idle"
    /\ \E first \in W.words, second \in W.words \cup {<<>>}, tool_names \in W.tool_names :
           LET message == IF second = <<>> THEN first ELSE first \o <<" ">> \o second
               prepared == Update(InitialState(message),
                                  [tools_by_name |-> [name \in tool_names |-> name]])
               classified == Update(prepared, _node_classify(prepared))
           IN  Called(t, "_node_route",
                      [state |-> Update(classified, _node_route(classified))])
    /\ UNCHANGED <<registry, _router, _tool_callables>>

NextClassify ==
    \E t \in Tasks :
        \/ LibraryClassifyRoute(t, ClassifyWorkload)
        \/ LibraryReturn(t)

SpecClassify == Init /\ [][NextClassify]_vars

\* The client of task t has run classify and route.
RouteNodeCalled(t) == task[t].pc = "called" /\ task[t].op = "_node_route"

\* The subagent of an intent, when the case plays no part.
SubagentOfIntent(intent) ==
    CASE intent \in {"status", "capabilities"} -> "status_agent"
      [] intent = "template" -> "template_agent"
      [] intent = "export_pdf" -> "export_agent"
      [] intent = "search" -> "search_agent"
      [] intent \in {"create", "insert_text", "save"} -> "document_agent"
      [] OTHER -> "recovery_agent"

\* C29: the subagent the route node chooses is a function of the intent alone: the case
\* template_workflow only arises for a message that mentions template, its Korean word or
\* form, such a message has intent status, capabilities or template, and no message with
\* another intent is routed to template_agent.
C29_IntentAlone ==
    \A t \in Tasks :
        RouteNodeCalled(t) =>
            LET state == task[t].locals.state
                lowered == Lower(state.message)
            IN  /\ state.subagent = SubagentOfIntent(state.intent)
                /\ state.case = "template_workflow" =>
                       /\ \/ Contains(lowered, <<"t","e","m","p","l","a","t","e">>)
                          \/ Contains(lowered, <<"U+D15C","U+D50C","U+B9BF">>)
                          \/ Contains(lowered, <<"U+C591","U+C2DD">>)
                       /\ state.intent \in {"status", "capabilities", "template"}
                /\ state.intent \notin {"status", "capabilities", "template"} =>
                       state.subagent # "template_agent"

\* A message that mentions both a template and pdf was classified template_workflow with
\* intent template and routed to template_agent.
C29_Witness ==
    \E t \in Tasks :
        /\ RouteNodeCalled(t)
        /\ task[t].locals.state.case = "template_workflow"
        /\ Contains(Lower(task[t].locals.state.message), <<"p","d","f">>)
        /\ task[t].locals.state.intent = "template"
        /\ task[t].locals.state.subagent = "template_agent"

\* The tools the request of task t has invoked so far, the call in flight included.
Invocations(t) ==
    Len(task[t].locals.calls) + (IF task[t].pc \in {"call_tool", "direct_call"} THEN 1 ELSE 0)

\* C28: a tool-only agent request invokes at most one tool in total, one direct callable or
\* one backend.call_tool: after the first available candidate raised or returned a failure
\* no later candidate is tried and the call is not made again.
C28_AtMostOneTool ==
    \A t \in Tasks :
        (task[t].op = "run" /\ "calls" \in DOMAIN task[t].locals) =>
            Invocations(t) <= 1

\* A run has responded after its one invocation, of hwp_ping through its direct callable,
\* raised, although the next candidate hwp_platform_info was registered too.
C28_Witness ==
    \E t \in Tasks :
        /\ Responded(t)
        /\ Len(task[t].locals.calls) = 1
        /\ task[t].locals.calls[1].via = "direct"
        /\ task[t].locals.calls[1].outcome.kind = "raise"
        /\ task[t].locals.calls[1].name = <<"h","w","p","_","p","i","n","g">>
        /\ <<"h","w","p","_","p","l","a","t","f","o","r","m","_","i","n","f","o">> \in DOMAIN task[t].locals.state["tools_by_name"]

\* C30: every state that reaches the finalize node carries a reply or a selected_tool_name,
\* so finalize never emits tool_not_selected; every response of run has a reply that a node
\* set, and its success is true exactly when no node wrote an error.
C30_ReplyOrTool ==
    \A t \in Tasks :
        /\ (task[t].op = "run" /\ task[t].pc = "node" /\ task[t].locals.node = "finalize") =>
               \/ "reply" \in DOMAIN task[t].locals.state
               \/ "selected_tool_name" \in DOMAIN task[t].locals.state
        /\ Responded(t) =>
               LET response == task[t].locals.result.value
                   state == task[t].locals.state
               IN  /\ response.error # Some(<<"tool_not_selected">>)
                   /\ "reply" \in DOMAIN state
                   /\ response.reply = state["reply"]
                   /\ response.success = (response.error = None)
                   /\ response.success = ("error" \notin DOMAIN state)

\* A run has responded with the reply finalize built for the selected tool, and with
\* success, no node having written an error.
C30_Witness ==
    \E t \in Tasks :
        /\ Responded(t)
        /\ task[t].locals.result.value.success
        /\ task[t].locals.result.value.selected_tool # None
        /\ task[t].locals.result.value.reply[1] = "["
        /\ task[t].locals.trace[Len(task[t].locals.trace)] = "finalize"

\* ------------------------------------------------------------ interleaved agent requests

\* Two callers of one agent instance, as the HTTP surface serves its requests: status
\* and capability requests against a backend whose catalog and direct callables may differ from one
\* list_tools to the next.
AgentConcurrentWorkload ==
    [ callers |-> {"t1", "t2"},
      messages |-> {<<"p","i","n","g">>, <<"c","a","p","a","b","i","l","i","t","y">>},
      descriptors |-> {HwpTool(<<"h","w","p","_","p","i","n","g">>, <<"p","i","n","g">>), HwpTool(<<"h","w","p","_","p","l","a","t","f","o","r","m","_","i","n","f","o">>, <<"i","n","f","o">>)},
      tool_managers |-> {{}, {<<"h","w","p","_","p","l","a","t","f","o","r","m","_","i","n","f","o">>}},
      raw_results |-> {RawDict},
      exceptions |-> {"boom"} ]

NextAgentConcurrent == NextAgentFor(AgentConcurrentWorkload)

SpecAgentConcurrent == Init /\ [][NextAgentConcurrent]_vars

\* gateway.tool_call of the request of task t is about to resolve the selected tool_id.
Resolving(t) ==
    /\ task[t].op = "run"
    /\ task[t].pc = "body"
    /\ task[t].locals.node \in Subagents

\* C26: a request uses one registry snapshot for its whole duration: a refresh by another
\* request's prepare between this request's prepare and its tool call does not change the
\* registry it resolves its selected tool_id against, so the tool_id chosen from the
\* registry of prepare is resolvable when gateway.tool_call runs.
C26_SnapshotResolvable ==
    \A t \in Tasks :
        Resolving(t) =>
            /\ ToolsByName(registry) = task[t].locals.state["tools_by_name"]
            /\ \E i \in 1..Len(registry) :
                   registry[i].tool_id = task[t].locals.selected[1].tool_id

\* The request of task t has run its subagent node, and has not ended by raising.
Decided(t) ==
    /\ task[t].op = "run"
    /\ "trace" \in DOMAIN task[t].locals
    /\ Len(task[t].locals.trace) >= 4
    /\ task[t].pc = "return" => task[t].locals.result.kind = "return"

\* The case, intent, subagent and selected tool of a decided request: those of its response
\* once run has built it, those its state holds before.
Outcome(t) ==
    IF task[t].pc = "return"
    THEN [case |-> task[t].locals.result.value.case,
          intent |-> task[t].locals.result.value.intent,
          subagent |-> task[t].locals.result.value.subagent,
          selected_tool |-> task[t].locals.result.value.selected_tool]
    ELSE [case |-> Get(task[t].locals.state, "case", "degraded_recovery"),
          intent |-> Get(task[t].locals.state, "intent", "unknown"),
          subagent |-> Get(task[t].locals.state, "subagent", "recovery_agent"),
          selected_tool |-> IF "selected_tool_name" \in DOMAIN task[t].locals.state
                            THEN Some(task[t].locals.state["selected_tool_name"])
                            ELSE None]

\* The message of the request of task t.
MessageOfRun(t) ==
    IF task[t].pc = "return" THEN task[t].locals.args ELSE task[t].locals.message

\* C23: two runs of one agent instance with the same message against the same registry
\* have the same case, intent, subagent and selected_tool, whatever requests the instance
\* served before and whatever it serves meanwhile.
C23_Deterministic ==
    \A t, u \in Tasks :
        ( /\ Decided(t)
          /\ Decided(u)
          /\ MessageOfRun(t) = MessageOfRun(u)
          /\ task[t].locals.state["tools_by_name"] = task[u].locals.state["tools_by_name"] ) =>
            Outcome(t) = Outcome(u)

\* Two requests with the same message and registry have selected a tool, one invoked
\* through its direct callable and the other through the gateway: the callables the
\* instance held had changed in between.
C23_Witness ==
    \E t, u \in Tasks :
        /\ t # u
        /\ Responded(t)
        /\ Decided(u)
        /\ MessageOfRun(t) = MessageOfRun(u)
        /\ task[t].locals.state["tools_by_name"] = task[u].locals.state["tools_by_name"]
        /\ Outcome(t).selected_tool # None
        /\ Len(task[t].locals.calls) = 1
        /\ Len(task[u].locals.calls) = 1
        /\ task[t].locals.calls[1].via # task[u].locals.calls[1].via

\* ------------------------------------------------------------ http_api.py

\* JSON values of a request body: a string, or a value of another type.
JsonStr(text) == [type |-> "str", text |-> text]

JsonOther(type) == [type |-> type, text |-> <<>>]

\* A JSON object, its members a set of <<key, value>>.
JsonObject(fields) == [type |-> "object", text |-> <<>>, fields |-> fields]

\* What `await request.json()` finds: a body that does not parse, or the parsed payload.
InvalidJson == [json |-> FALSE, payload |-> JsonObject({})]

Parsed(payload) == [json |-> TRUE, payload |-> payload]

\* payload.get(key)
PayloadGet(payload, key) ==
    IF \E member \in payload.fields : member[1] = key
    THEN Some((CHOOSE member \in payload.fields : member[1] = key)[2])
    ELSE None

\* `not isinstance(message, str) or not message.strip()`, without the strip
MessageRequiredUnstripped(message) ==
    \/ message = None
    \/ message[1].type # "str"
    \/ message[1].text = <<>>

\* `not isinstance(message, str) or not message.strip()` for message = payload.get("message")
MessageRequired(message) ==
    \/ message = None
    \/ message[1].type # "str"
    \/ Strip(message[1].text) = <<>>

\* `raw_session_id if isinstance(raw_session_id, str) else ""` for payload.get("session_id", "")
SessionId(payload) ==
    LET raw_session_id == PayloadGet(payload, "session_id")
    IN  IF raw_session_id # None /\ raw_session_id[1].type = "str" THEN raw_session_id[1].text
        ELSE <<>>

JSONResponse(content, status_code) == [status_code |-> status_code, content |-> content]

\* The requests of a client of POST /agent/chat: bodies that do not parse, payloads that are
\* no object, objects without a usable message, and requests the agent serves.
ChatWorkload ==
    [ callers |-> {"t1"},
      bodies |-> {InvalidJson,
                  Parsed([type |-> "list", text |-> <<>>, fields |-> {}]),
                  Parsed([type |-> "str", text |-> <<"p","i","n","g">>, fields |-> {}]),
                  Parsed([type |-> "null", text |-> <<>>, fields |-> {}]),
                  Parsed(JsonObject({})),
                  Parsed(JsonObject({<<"session_id", JsonStr(<<"s","1">>)>>})),
                  Parsed(JsonObject({<<"message", JsonOther("null")>>})),
                  Parsed(JsonObject({<<"message", JsonOther("int")>>})),
                  Parsed(JsonObject({<<"message", JsonOther("list")>>})),
                  Parsed(JsonObject({<<"message", JsonStr(<<>>)>>})),
                  Parsed(JsonObject({<<"message", JsonStr(<<" ">>)>>})),
                  Parsed(JsonObject({<<"message", JsonStr(<<" "," "," ">>)>>,
                                     <<"session_id", JsonStr(<<"s","1">>)>>})),
                  Parsed(JsonObject({<<"message", JsonStr(<<"p","i","n","g">>)>>})),
                  Parsed(JsonObject({<<"message", JsonStr(<<" ","p","i","n","g"," ">>)>>,
                                     <<"session_id", JsonStr(<<" ","s","1"," ">>)>>})),
                  Parsed(JsonObject({<<"message", JsonStr(<<"h","e","l","l","o">>)>>,
                                     <<"session_id", JsonOther("int")>>}))},
      descriptors |-> {HwpTool(<<"h","w","p","_","p","i","n","g">>, <<"p","i","n","g">>), HwpTool(<<"h","w","p","_","p","l","a","t","f","o","r","m","_","i","n","f","o">>, <<"i","n","f","o">>)},
      tool_managers |-> {{}, {<<"h","w","p","_","p","i","n","g">>}},
      raw_results |-> {RawDict, RawFailure},
      exceptions |-> {"boom"} ]

\* chat hands response to the HTTP server, or raises.
ChatDone(t, result) ==
    task' = [task EXCEPT ![t] = [pc |-> "return", op |-> "chat",
                                 locals |-> [body |-> task[t].locals.body, result |-> result]]]

\* A client posts body: chat runs to `await request.json()`.
ChatRequest(t, W) ==
    /\ t \in W.callers
    /\ task[t].pc = "idle"
    /\ CanRun(t)
    /\ \E body \in W.bodies :
           task' = [task EXCEPT ![t] = [pc |-> "json", op |-> "chat",
                                        locals |-> [body |-> body]]]
    /\ UNCHANGED <<registry, _router, _tool_callables>>

\* chat from the return of request.json() on: it answers 400 or 422, or it awaits
\* self._agent.run(message, session_id), which invokes the graph.
ChatValidate(t) ==
    /\ task[t].pc = "json"
    /\ task[t].op = "chat"
    /\ CanRun(t)
    /\ LET body == task[t].locals.body
           message == PayloadGet(body.payload, "message")
       IN  IF ~body.json
           THEN ChatDone(t, Returned(JSONResponse([success |-> FALSE, error |-> "invalid_json"],
                                                  400)))
           ELSE IF body.payload.type # "object"
           THEN ChatDone(t, Returned(JSONResponse([success |-> FALSE,
                                                   error |-> "invalid_payload"], 400)))
           ELSE IF MessageRequired(message)
           THEN ChatDone(t, Returned(JSONResponse([success |-> FALSE,
                                                   error |-> "message_required"], 422)))
           ELSE LET state == [message |-> Strip(message[1].text),
                              session_id |-> Strip(SessionId(body.payload))]
                IN  task' = [task EXCEPT ![t] =
                                [pc |-> "node", op |-> "run",
                                 locals |-> [message |-> message[1].text, state |-> state,
                                             node |-> _build_graph("START", state),
                                             trace |-> <<>>, calls |-> <<>>,
                                             selected |-> None, request |-> None]]]
    /\ UNCHANGED <<registry, _router, _tool_callables>>

\* run has ended: chat answers 200 with the response of run, or the exception of run leaves
\* chat.  The runtime entry chat adds to the response echoes the request's runtime settings.
ChatRespond(t) ==
    /\ task[t].pc = "return"
    /\ task[t].op = "run"
    /\ task' = [task EXCEPT ![t] =
                   [pc |-> "return", op |-> "chat",
                    locals |-> [message |-> task[t].locals.args,
                                calls |-> task[t].locals.calls,
                                result |-> IF task[t].locals.result.kind = "return"
                                           THEN Returned(JSONResponse(
                                                    task[t].locals.result.value, 200))
                                           ELSE task[t].locals.result]]]
    /\ UNCHANGED <<registry, _router, _tool_callables>>

\* The HTTP server takes the response or the exception.
ChatReturn(t) ==
    /\ task[t].pc = "return"
    /\ task[t].op = "chat"
    /\ task' = [task EXCEPT ![t] = Idle]
    /\ UNCHANGED <<registry, _router, _tool_callables>>

NextChatFor(W) ==
    \E t \in Tasks :
        \/ ChatRequest(t, W)
        \/ ChatValidate(t)
        \/ NodePrepare(t)
        \/ ListToolsReturn(t, W)
        \/ AssignRouter(t)
        \/ ListToolsFail(t)
        \/ PrepareDone(t, W)
        \/ NodeClassify(t)
        \/ NodeRoute(t)
        \/ NodeSubagent(t)
        \/ GatewayToolCall(t)
        \/ BackendCall(t)
        \/ AgentCallToolReturn(t, W)
        \/ AgentCallToolFail(t)
        \/ DirectReturn(t, W)
        \/ DirectFail(t, W)
        \/ NodeFinalize(t)
        \/ RunReturn(t)
        \/ ChatRespond(t)
        \/ ChatReturn(t)

NextChat == NextChatFor(ChatWorkload)

SpecChat == Init /\ [][NextChat]_vars

\* The message member of a parsed object is missing, no string, empty or made of spaces.
NoUsableMessage(payload) ==
    \/ \A member \in payload.fields : member[1] # "message"
    \/ \E member \in payload.fields :
           /\ member[1] = "message"
           /\ \/ member[2].type # "str"
              \/ \A i \in DOMAIN member[2].text : member[2].text[i] = " "

\* The answer C25 gives for a body, None for a body the agent is to serve.
ValidationAnswer(body) ==
    IF ~body.json \/ body.payload.type # "object" THEN Some(400)
    ELSE IF NoUsableMessage(body.payload) THEN Some(422)
    ELSE None

\* The request of task t has its body and chat is about to validate it.
Validating(t) == task[t].op = "chat" /\ task[t].pc = "json"

\* In this step chat answers the request of task t as C25 requires: with the status of
\* the body, with message_required for 422, without starting the agent and leaving the
\* registry and the callables as they are.
RejectedInStep(t) ==
    /\ task'[t].op = "chat"
    /\ task'[t].pc = "return"
    /\ task'[t].locals.result.kind = "return"
    /\ task'[t].locals.result.value.status_code = ValidationAnswer(task[t].locals.body)[1]
    /\ task'[t].locals.result.value.content.success = FALSE
    /\ task'[t].locals.result.value.status_code = 422 =>
           task'[t].locals.result.value.content.error = "message_required"
    /\ UNCHANGED <<registry, _router, _tool_callables>>

\* C25: POST /agent/chat validates before acting: a body that is no valid JSON or no object
\* is answered 400, and a missing, non-string, empty or whitespace-only message 422 with
\* success false and error message_required; in all these cases the agent is not run, so
\* that backend.list_tools is not awaited and no tool is invoked.
C25_ValidatesFirst ==
    [][\A t \in Tasks :
           (Validating(t) /\ ValidationAnswer(task[t].locals.body) # None
                          /\ task'[t] # task[t]) => RejectedInStep(t)]_vars

\* chat has answered 422 to a message made of spaces, while the instance holds the registry
\* of an earlier request.
C25_Witness ==
    \E t \in Tasks :
        /\ task[t].op = "chat"
        /\ task[t].pc = "return"
        /\ "body" \in DOMAIN task[t].locals
        /\ task[t].locals.result.value.status_code = 422
        /\ \E member \in task[t].locals.body.payload.fields :
               member[1] = "message" /\ Len(member[2].text) = 3
        /\ registry # <<>>

\* ------------------------------------------------------------ OpenRouterToolAgent

\* OpenRouterToolAgent.max_rounds
max_rounds == 8

\* _first_choice: the first choice of the payload, {} (here None) when there is none.
_first_choice(payload) ==
    IF payload.choices # <<>> THEN Some(Head(payload.choices)) ELSE None

\* The arguments of a tool call item: the dict, the dict a JSON string parses to, else {}.
ParsedArguments(raw_args) ==
    IF raw_args.kind \in {"dict", "json_dict"} THEN raw_args.value ELSE {}

\* _extract_tool_calls: the items with a string id and a function with a string name.
_extract_tool_calls(message) ==
    LET wellformed == SelectSeq(message.tool_calls,
                                LAMBDA item : item.id # None /\ item.name # None)
    IN  [i \in 1..Len(wellformed) |->
            [tool_call_id |-> wellformed[i].id[1], name |-> wellformed[i].name[1],
             arguments |-> ParsedArguments(wellformed[i].arguments)]]

\* A tool call item of the model's message.
ToolCallItem(id, name, raw_args) == [id |-> id, name |-> name, arguments |-> raw_args]

DictArgs(value) == [kind |-> "dict", value |-> value]

\* The payload of a chat completion with one choice.
Completion(message, finish_reason) ==
    [choices |-> <<[message |-> message, finish_reason |-> finish_reason]>>]

AssistantMessage(content, tool_calls) == [content |-> content, tool_calls |-> tool_calls]

\* What the model may answer in any round: nothing usable, a final message, or tool calls
\* for a tool of the manifest (hwp_ping), for a registered tool outside it (hwp_save), for
\* an unknown tool, and malformed ones.
OpenRouterWorkload ==
    [ callers |-> {"t1"},
      messages |-> {<<"p","i","n","g">>},
      descriptors |-> {HwpTool(<<"h","w","p","_","p","i","n","g">>, <<"p","i","n","g">>), HwpTool(<<"h","w","p","_","s","a","v","e">>, <<"s","a","v","e">>)},
      responses |->
          {[choices |-> <<>>],
           Completion(None, "stop"),
           Completion(Some(AssistantMessage(Some(<<"d","o","n","e">>), <<>>)), "stop"),
           Completion(Some(AssistantMessage(Some(<<" ">>), <<>>)), "stop"),
           Completion(Some(AssistantMessage(None,
                           <<ToolCallItem(Some("c0"), Some(<<"h","w","p","_","p","i","n","g">>), DictArgs({}))>>)),
                      "stop"),
           Completion(Some(AssistantMessage(None,
                           <<ToolCallItem(None, Some(<<"h","w","p","_","p","i","n","g">>), DictArgs({}))>>)),
                      "tool_calls"),
           Completion(Some(AssistantMessage(None,
                           <<ToolCallItem(Some("c1"), Some(<<"h","w","p","_","p","i","n","g">>), DictArgs({}))>>)),
                      "tool_calls"),
           Completion(Some(AssistantMessage(None,
                           <<ToolCallItem(Some("c2"), Some(<<"h","w","p","_","s","a","v","e">>),
                                          [kind |-> "json_dict", value |-> ArgsPath]),
                             ToolCallItem(Some("c3"), Some(<<"n","o","p","e">>),
                                          [kind |-> "text", value |-> {}])>>)),
                      "tool_calls")},
      raw_results |-> {RawDict},
      exceptions |-> {"boom"} ]

\* run is about to hand result to its caller, or to raise.
OpenRouterDone(t, result, locals, calls) ==
    task' = [task EXCEPT ![t] =
                [pc |-> "return", op |-> "openrouter_run",
                 locals |-> [args |-> locals.message, result |-> result, calls |-> calls,
                             round |-> locals.round, response |-> locals.response,
                             allowlist |-> locals.allowlist]]]

\* The response of run for a loop that ended without a final message.
ErrorResponse(locals, error) ==
    [success |-> FALSE, case |-> locals.case, intent |-> locals.intent,
     subagent |-> locals.subagent, reply |-> <<"reply: ", error>>, error |-> Some(error)]

\* The response of run for the final message content.
FinalResponse(locals, content) ==
    [success |-> TRUE, case |-> locals.case, intent |-> locals.intent,
     subagent |-> locals.subagent, selected_tool |-> locals.last_tool_name,
     arguments |-> locals.last_arguments,
     reply |-> IF content # None /\ Strip(content[1]) # <<>> THEN content[1]
               ELSE <<"(","n","o"," ","r","e","s","p","o","n","s","e",")">>,
     result |-> locals.tool_call_results, error |-> None,
     session_id |-> locals.session_id]

\* The loop with one round more than max_rounds.
NextRoundOneMore(t, locals) ==
    IF locals.round <= max_rounds
    THEN task' = [task EXCEPT ![t].pc = "chat_completions",
                              ![t].locals = [locals EXCEPT !.round = locals.round + 1]]
    ELSE OpenRouterDone(t, Returned(ErrorResponse(locals, "max_rounds_exceeded")), locals,
                        locals.calls)

\* The top of `for _round in range(self.max_rounds)`: the next model request, or the end of
\* the loop.  round counts the model requests made.
NextRound(t, locals) ==
    IF locals.round < max_rounds
    THEN task' = [task EXCEPT ![t].pc = "chat_completions",
                              ![t].locals = [locals EXCEPT !.round = locals.round + 1]]
    ELSE OpenRouterDone(t, Returned(ErrorResponse(locals, "max_rounds_exceeded")), locals,
                        locals.calls)

\* A caller starts run: it runs to the `await server.list_tools()` of refresh_registry.
OpenRouterRun(t, W) ==
    /\ t \in W.callers
    /\ task[t].pc = "idle"
    /\ CanRun(t)
    /\ \E message \in W.messages :
           task' = [task EXCEPT ![t] =
                       [pc |-> "list_tools", op |-> "openrouter_run",
                        locals |-> [message |-> message, session_id |-> <<>>]]]
    /\ UNCHANGED <<registry, _router, _tool_callables>>

\* run from the return of refresh_registry to the first model request: classification,
\* route, allow-list, and the manifest of the allowed tools the registry holds.
OpenRouterPrepare(t) ==
    /\ task[t].pc = "body"
    /\ task[t].op = "openrouter_run"
    /\ "round" \notin DOMAIN task[t].locals
    /\ LET message == task[t].locals.message
           tool_names == {registry[i].name : i \in 1..Len(registry)}
           intent == _parse_intent(message)
           case == _detect_case(message, tool_names)
           subagent == _route_subagent(intent, case)
           allowlist == _subagent_tool_allowlist(subagent, intent)
       IN  NextRound(t, [message |-> message, session_id |-> task[t].locals.session_id,
                         case |-> case, intent |-> intent, subagent |-> subagent,
                         allowlist |-> allowlist,
                         tool_defs |-> SelectSeq(allowlist, LAMBDA name : name \in tool_names),
                         messages |-> <<"system", "user">>,
                         tool_call_results |-> <<>>, last_tool_name |-> None,
                         last_arguments |-> {}, round |-> 0, pending |-> <<>>,
                         calls |-> <<>>, request |-> None, response |-> None])
    /\ UNCHANGED <<registry, _router, _tool_callables>>

\* client.chat_completions returns response: no message object, tool calls to execute, or
\* the final message.
ChatCompletionsReturn(t, W) ==
    /\ task[t].pc = "chat_completions"
    /\ CanRun(t)
    /\ \E response \in W.responses :
           LET locals == [task[t].locals EXCEPT !.response = Some(response)]
               choice == _first_choice(response)
               assistant_message == IF choice = None THEN None ELSE choice[1].message
           IN  IF assistant_message = None
               THEN OpenRouterDone(t, Returned(ErrorResponse(locals, "invalid_model_response")),
                                   locals, locals.calls)
               ELSE IF /\ choice[1].finish_reason = "tool_calls"
                       /\ _extract_tool_calls(assistant_message[1]) # <<>>
               THEN task' = [task EXCEPT
                               ![t].pc = "body",
                               ![t].locals =
                                   [locals EXCEPT
                                       !.messages = Append(locals.messages, "assistant"),
                                       !.pending = _extract_tool_calls(assistant_message[1])]]
               ELSE OpenRouterDone(t, Returned(FinalResponse(locals,
                                                             assistant_message[1].content)),
                                   locals, locals.calls)
    /\ UNCHANGED <<registry, _router, _tool_callables>>

\* client.chat_completions raises (no API key, HTTP status >= 400): nothing in run catches it.
ChatCompletionsFail(t) ==
    /\ task[t].pc = "chat_completions"
    /\ CanRun(t)
    /\ OpenRouterDone(t, Raised("chat_completions"), task[t].locals, task[t].locals.calls)
    /\ UNCHANGED <<registry, _router, _tool_callables>>

\* The result of one tool call is recorded and sent back to the model.
ToolCallRecorded(locals, call, result) ==
    [locals EXCEPT !.tool_call_results =
                       Append(locals.tool_call_results,
                              [tool_call_id |-> call.tool_call_id, name |-> call.name,
                               arguments |-> call.arguments, result |-> result]),
                   !.messages = Append(locals.messages, "tool"),
                   !.pending = Tail(locals.pending),
                   !.last_tool_name = Some(call.name),
                   !.last_arguments = call.arguments]

\* _call_tool_by_name for the registry reg: the tool_id of the first record of that name,
\* None when no record has it.
_call_tool_by_name(reg, name) ==
    IF \E i \in 1..Len(reg) : reg[i].name = name
    THEN Some(reg[CHOOSE i \in 1..Len(reg) :
                      /\ reg[i].name = name
                      /\ \A j \in 1..(i - 1) : reg[j].name # name].tool_id)
    ELSE None

\* `for call in tool_calls`: the next call goes to gateway.tool_call, which is about to
\* await backend.call_tool, or it is answered tool_not_found; after the last call the loop
\* continues with the next round.
ToolCallRound(t) ==
    /\ task[t].pc = "body"
    /\ task[t].op = "openrouter_run"
    /\ "round" \in DOMAIN task[t].locals
    /\ LET locals == task[t].locals
       IN  IF locals.pending = <<>> THEN NextRound(t, locals)
           ELSE LET call == Head(locals.pending)
                    tool_id == _call_tool_by_name(registry, call.name)
                IN  IF tool_id = None
                    THEN task' = [task EXCEPT ![t].locals =
                                     ToolCallRecorded(locals, call,
                                                  [success |-> FALSE,
                                                   message |-> <<"tool_not_found: ",
                                                                 call.name>>])]
                    ELSE IF ToolCallRequest(registry, tool_id[1], call.arguments) = None
                    THEN task' = [task EXCEPT ![t].locals =
                                     ToolCallRecorded(locals, call, NotFound(tool_id[1]))]
                    ELSE task' = [task EXCEPT
                                    ![t].pc = "calling",
                                    ![t].locals.request =
                                        ToolCallRequest(registry, tool_id[1], call.arguments)]
    /\ UNCHANGED <<registry, _router, _tool_callables>>

\* backend.call_tool returns raw: gateway.tool_call wraps it, _call_tool_by_name unwraps
\* its result.
OpenRouterCallToolReturn(t, W) ==
    /\ task[t].pc = "call_tool"
    /\ task[t].op = "openrouter_run"
    /\ CanRun(t)
    /\ \E raw \in W.raw_results :
           LET locals == task[t].locals
               call == Head(locals.pending)
           IN  task' = [task EXCEPT
                          ![t].pc = "body",
                          ![t].locals =
                              [ToolCallRecorded(locals, call, _normalize_tool_result(raw))
                                  EXCEPT !.calls = Append(locals.calls,
                                                          BackendCalled(locals.request[1],
                                                                        Returned(raw)))]]
    /\ UNCHANGED <<registry, _router, _tool_callables>>

\* backend.call_tool raises: nothing in tool_call, _call_tool_by_name or run catches it.
OpenRouterCallToolFail(t) ==
    /\ task[t].pc = "call_tool"
    /\ task[t].op = "openrouter_run"
    /\ CanRun(t)
    /\ OpenRouterDone(t, Raised("call_tool"), task[t].locals,
                      Append(task[t].locals.calls,
                             BackendCalled(task[t].locals.request[1], Raised("backend"))))
    /\ UNCHANGED <<registry, _router, _tool_callables>>

\* backend.list_tools raises in refresh_registry: the exception leaves run.
OpenRouterListToolsFail(t) ==
    /\ task[t].pc = "list_tools"
    /\ task[t].op = "openrouter_run"
    /\ CanRun(t)
    /\ task' = [task EXCEPT ![t] =
                   [pc |-> "return", op |-> "openrouter_run",
                    locals |-> [args |-> task[t].locals.message,
                                result |-> Raised("list_tools"), calls |-> <<>>,
                                round |-> 0, response |-> None, allowlist |-> <<>>]]]
    /\ UNCHANGED <<registry, _router, _tool_callables>>

\* The steps of an external-model run that has started.
OpenRouterStep(t, W) ==
    \/ ListToolsReturn(t, W)
    \/ AssignRouter(t)
    \/ OpenRouterListToolsFail(t)
    \/ OpenRouterPrepare(t)
    \/ ChatCompletionsReturn(t, W)
    \/ ChatCompletionsFail(t)
    \/ ToolCallRound(t)
    \/ BackendCall(t)
    \/ OpenRouterCallToolReturn(t, W)
    \/ OpenRouterCallToolFail(t)
    \/ Return(t)

NextOpenRouter ==
    \E t \in Tasks : OpenRouterRun(t, OpenRouterWorkload) \/ OpenRouterStep(t, OpenRouterWorkload)

SpecOpenRouter == Init /\ [][NextOpenRouter]_vars

\* The event loop can resume the external-model run of task t.  This is when
\* OpenRouterStep(t, OpenRouterWorkload) is enabled for a run that has not ended.
OpenRouterResumable(t) ==
    /\ task[t].op = "openrouter_run"
    /\ task[t].pc \notin {"idle", "return"}
    /\ (task[t].pc \in Running \/ CanRun(t))

\* Weak fairness of the steps of every run, with the enabling condition written out: the
\* event loop resumes the run, and the model endpoint and the backend answer every request,
\* with a value or with an exception.
SpecOpenRouterFair ==
    /\ SpecOpenRouter
    /\ \A t \in Tasks :
           []<>(~OpenRouterResumable(t)) \/ []<><<task'[t] # task[t]>>_vars

\* The model's response requests tool calls: finish_reason tool_calls with at least one
\* call that has an id and a function name.
RequestsToolCalls(response) ==
    /\ response.choices # <<>>
    /\ response.choices[1].message # None
    /\ response.choices[1].finish_reason = "tool_calls"
    /\ \E i \in DOMAIN response.choices[1].message[1].tool_calls :
           /\ response.choices[1].message[1].tool_calls[i].id # None
           /\ response.choices[1].message[1].tool_calls[i].name # None

HasMessageObject(response) ==
    response.choices # <<>> /\ response.choices[1].message # None

\* The external-model run of task t is under way with its loop entered, or has ended.
InLoop(t) == task[t].op = "openrouter_run" /\ "round" \in DOMAIN task[t].locals

OpenRouterEnded(t) == task[t].op = "openrouter_run" /\ task[t].pc = "return"

\* The run has made at most max_rounds model requests, and it ended as its last response
\* requires.
C24_Bounded ==
    \A t \in Tasks :
        InLoop(t) =>
            /\ task[t].locals.round <= max_rounds
            /\ (OpenRouterEnded(t) /\ task[t].locals.result.kind = "return"
                                   /\ task[t].locals.response # None) =>
                   LET response == task[t].locals.response[1]
                       result == task[t].locals.result.value
                   IN  IF ~HasMessageObject(response)
                       THEN result.success = FALSE
                            /\ result.error = Some("invalid_model_response")
                       ELSE IF RequestsToolCalls(response)
                       THEN /\ result.success = FALSE
                            /\ result.error = Some("max_rounds_exceeded")
                            /\ task[t].locals.round = max_rounds
                       ELSE result.success = TRUE /\ result.error = None

\* A round whose response requests tool calls executes them and asks the model again, as
\* long as rounds are left; when none is left the run ends without another request or call.
C24_Requeries ==
    \A t \in Tasks :
        ( /\ InLoop(t)
          /\ task[t].pc = "body"
          /\ task[t].locals.pending = <<>>
          /\ task'[t] # task[t] ) =>
            IF task[t].locals.round < max_rounds
            THEN task'[t].pc = "chat_completions"
                 /\ task'[t].locals.round = task[t].locals.round + 1
            ELSE /\ task'[t].pc = "return"
                 /\ task'[t].locals.round = max_rounds
                 /\ task'[t].locals.calls = task[t].locals.calls

\* C24: the external-model conversation loop terminates for every model behaviour after at
\* most max_rounds (8) model requests: a response that requests tool calls has them executed
\* and the model asked again, a final assistant message ends the run with success, a
\* response without message object with error invalid_model_response, and tool calls in
\* all max_rounds rounds with error max_rounds_exceeded and no further request or call.
C24_Terminates ==
    /\ []C24_Bounded
    /\ [][C24_Requeries]_vars
    /\ \A t \in Tasks : (task[t].op = "openrouter_run") ~> OpenRouterEnded(t)

\* A run has ended with max_rounds_exceeded after max_rounds requests, each answered with
\* tool calls, which the backend executed.
C24_Witness ==
    \E t \in Tasks :
        /\ OpenRouterEnded(t)
        /\ task[t].locals.result.kind = "return"
        /\ task[t].locals.result.value.error = Some("max_rounds_exceeded")
        /\ task[t].locals.round = max_rounds
        /\ Len(task[t].locals.calls) >= max_rounds

\* C27: during an external-model run every tool that is executed is in the allow-list of
\* the run's subagent: a tool call the model requests for a name outside the allow-list,
\* even one the registry holds, is not forwarded to gateway.tool_call.
C27_OnlyAllowed ==
    \A t \in Tasks :
        InLoop(t) =>
            /\ \A i \in DOMAIN task[t].locals.calls :
                   \E j \in DOMAIN task[t].locals.allowlist :
                       task[t].locals.allowlist[j] = task[t].locals.calls[i].name
            /\ task[t].pc \in {"calling", "call_tool"} =>
                   \E j \in DOMAIN task[t].locals.allowlist :
                       task[t].locals.allowlist[j] = task[t].locals.request[1].name

====
